---- MODULE Spec2Model ----
(***************************************************************************)
(* A model of skir: the plugin lifecycle manager and linking engine.       *)
(*                                                                         *)
(* Strings are sequences of one-character strings, so that the parser's    *)
(* prefix, suffix and separator tests are computed on the characters as    *)
(* the Rust code computes them.  Paths are sequences of components, each   *)
(* component a string in that sense.                                       *)
(***************************************************************************)
EXTENDS Integers, Sequences, FiniteSets, Bags, TLC

VARIABLES
    url,      \* the reference handed to GitSource::parse
    form,     \* how the reference was written ("none" before one is entered)
    seg,      \* the (host, owner, repo) a well-formed reference was built from
    src,      \* the result of the last GitSource::parse
    prev,     \* a source accepted earlier, kept to compare two sources
    home,     \* whether dirs::home_dir() resolves
    dirs,     \* the directories of the cache area: path -> [git, tree]
    ldirs,    \* the directories of the link area (each target's skills directory)
    links,    \* the entries of the link area: link path -> [kind, to]
    held,     \* the Plugin values the caller holds: cache path -> Plugin
    last,     \* the last call on the library and what it returned
    calls,    \* the number of steps taken on the filesystem
    status,   \* StatusManager.entries
    now,      \* Instant::now(), in seconds
    first_added,  \* the ids ever handed to StatusManager::add, in the order of their first add
    shown,    \* what get_display and display_kind returned, when they were called last
    plugins,  \* App.plugins
    selected_plugin,  \* App.selected_plugin
    installing,       \* App.installing: (url, receiver)
    updating,         \* App.updating: (idx, name, receiver)
    chans,    \* the one-shot channels of the background jobs, by number
    applied,  \* for each channel, how often its result was applied by a poll
    view,     \* App.view
    input,    \* App.input
    nodes,    \* a directory tree handed to scan_for_skills: path -> kind of the entry
    scanned   \* what scan_for_skills returned, when it was called last

parseVars == <<url, form, seg, src, prev>>

fsVars == <<home, dirs, ldirs, links, held, last, calls>>

statusVars == <<status, now, first_added, shown>>

appVars == <<plugins, selected_plugin, installing, updating, chans, applied, view, input>>

scanVars == <<nodes, scanned>>

vars == <<parseVars, fsVars, statusVars, appVars, scanVars>>

\* the last call on the StatusManager was not a rendering
NotShown == [text |-> << >>, kind |-> "none"]

\* StatusManager::new
StatusNew ==
    /\ status = << >>
    /\ now = 0
    /\ first_added = << >>
    /\ shown = NotShown

\* no tree handed to the scan yet
NoScan ==
    /\ nodes = [p \in {} |-> TRUE]
    /\ scanned = [res |-> "none", skills |-> << >>]

\* no App: nothing installed through it, no job
NoApp ==
    /\ plugins = << >>
    /\ selected_plugin = 0
    /\ installing = << >>
    /\ updating = << >>
    /\ chans = << >>
    /\ applied = << >>
    /\ view = "PluginList"
    /\ input = << >>

(***************************************************************************)
(* Bounds                                                                  *)
(***************************************************************************)
\* chunks concatenated into one raw reference
MaxChunks == 5
\* chunks concatenated into one host, owner or repo segment
MaxSegChunks == 2
\* characters after the scheme in a reference of the two-source check
MaxPathLen == 5
\* directories holding a marker in one working tree
MaxTreeLen == 2
\* steps on the filesystem in one behaviour
MaxCalls == 4

(***************************************************************************)
(* String literals of the source                                           *)
(***************************************************************************)
EmptyStr == << >>
SchemeSep == <<":", "/", "/">>
HttpsPrefix == <<"h", "t", "t", "p", "s", ":", "/", "/">>
SshPrefix == <<"g", "i", "t", "@">>
GitSuffix == <<".", "g", "i", "t">>
GithubHost == <<"g", "i", "t", "h", "u", "b", ".", "c", "o", "m">>
Slash == <<"/">>
Colon == <<":">>

(***************************************************************************)
(* str primitives used by the parser                                       *)
(***************************************************************************)
StartsWith(s, p) == Len(s) >= Len(p) /\ SubSeq(s, 1, Len(p)) = p

EndsWith(s, p) == Len(s) >= Len(p) /\ SubSeq(s, Len(s) - Len(p) + 1, Len(s)) = p

Contains(s, p) == \E i \in 1..(Len(s) - Len(p) + 1) : SubSeq(s, i, i + Len(p) - 1) = p

HasChar(s, c) == \E i \in 1..Len(s) : s[i] = c

\* the index of the first c in s; 0 when there is none
FirstIndex(s, c) ==
    IF HasChar(s, c)
    THEN CHOOSE i \in 1..Len(s) : s[i] = c /\ \A j \in 1..(i - 1) : s[j] # c
    ELSE 0

StripPrefix(s, p) == SubSeq(s, Len(p) + 1, Len(s))

\* strip_suffix(p).unwrap_or(s)
StripSuffixOr(s, p) == IF EndsWith(s, p) THEN SubSeq(s, 1, Len(s) - Len(p)) ELSE s

IsSpace(c) == c = " "

\* str::trim: leading and trailing whitespace removed
trim(s) ==
    LET keep == {i \in 1..Len(s) : ~IsSpace(s[i])}
    IN  IF keep = {} THEN EmptyStr
        ELSE LET lo == CHOOSE i \in keep : \A j \in keep : i <= j
                 hi == CHOOSE i \in keep : \A j \in keep : j <= i
             IN  SubSeq(s, lo, hi)

\* splitn(2, c): one part when c does not occur, else the text before and after the first c
splitn2(s, c) ==
    LET i == FirstIndex(s, c)
    IN  IF i = 0 THEN <<s>> ELSE <<SubSeq(s, 1, i - 1), SubSeq(s, i + 1, Len(s))>>

(***************************************************************************)
(* GitSource                                                               *)
(***************************************************************************)
NoSource == [ok |-> FALSE, err |-> "none", host |-> EmptyStr, owner |-> EmptyStr,
             repo |-> EmptyStr, url |-> EmptyStr]

InvalidUrl(u) == [ok |-> FALSE, err |-> "InvalidUrl", host |-> EmptyStr, owner |-> EmptyStr,
                  repo |-> EmptyStr, url |-> u]

GitSource(h, o, r, u) == [ok |-> TRUE, err |-> "", host |-> h, owner |-> o, repo |-> r, url |-> u]

\* parse_owner_repo without the strip of a trailing ".git"
parse_owner_repo_keeps_suffix(path, host, original_url) ==
    LET parts == splitn2(path, "/")
    IN  IF Len(parts) # 2 \/ parts[1] = EmptyStr \/ parts[2] = EmptyStr
        THEN InvalidUrl(original_url)
        ELSE GitSource(host, parts[1], parts[2], original_url)

parse_owner_repo(path, host, original_url) ==
    LET p == StripSuffixOr(path, GitSuffix)
        parts == splitn2(p, "/")
    IN  IF Len(parts) # 2 \/ parts[1] = EmptyStr \/ parts[2] = EmptyStr
        THEN InvalidUrl(original_url)
        ELSE GitSource(host, parts[1], parts[2], original_url)

parse_https(rest, original_url) ==
    LET parts == splitn2(rest, "/")
    IN  IF Len(parts) # 2
        THEN InvalidUrl(original_url)
        ELSE parse_owner_repo(parts[2], parts[1], original_url)

parse_ssh(rest, original_url) ==
    LET parts == splitn2(rest, ":")
    IN  IF Len(parts) # 2
        THEN InvalidUrl(original_url)
        ELSE parse_owner_repo(parts[2], parts[1], original_url)

\* the shorthand branch: owner/repo, host defaulted to github.com
IsShorthand(t) ==
    /\ ~Contains(t, SchemeSep)
    /\ ~StartsWith(t, SshPrefix)
    /\ HasChar(t, "/")
    /\ LET parts == splitn2(t, "/")
       IN  parts[1] # EmptyStr /\ parts[2] # EmptyStr /\ ~HasChar(parts[2], "/")

parse(u) ==
    LET t == trim(u)
    IN  IF IsShorthand(t)
        THEN LET parts == splitn2(t, "/")
                 repo == StripSuffixOr(parts[2], GitSuffix)
             IN  GitSource(GithubHost, parts[1], repo,
                           HttpsPrefix \o GithubHost \o Slash \o parts[1] \o Slash \o repo)
        ELSE IF StartsWith(t, HttpsPrefix)
        THEN parse_https(StripPrefix(t, HttpsPrefix), t)
        ELSE IF StartsWith(t, SshPrefix)
        THEN parse_ssh(StripPrefix(t, SshPrefix), t)
        ELSE InvalidUrl(u)

(***************************************************************************)
(* Inputs of the parser                                                    *)
(***************************************************************************)
RECURSIVE Concats(_, _)
\* the strings made of at most n chunks of C
Concats(C, n) ==
    IF n = 0 THEN {EmptyStr}
    ELSE LET S == Concats(C, n - 1) IN S \cup {s \o c : s \in S, c \in C}

UrlPrefixes == {EmptyStr, HttpsPrefix, SshPrefix, <<" ">>}

BodyChunks == {<<"a">>, <<"/">>, <<":">>, <<" ">>, GitSuffix}

\* raw references: any text the user may type, over a small alphabet
RawUrls == {p \o b : p \in UrlPrefixes, b \in Concats(BodyChunks, MaxChunks)}

SegChunks == {<<"a">>, GitSuffix, SshPrefix}

\* host, owner and repo segments: non-empty, free of '/', ':' and whitespace
Segs == Concats(SegChunks, MaxSegChunks) \ {EmptyStr}

Forms == {"https", "https_git", "ssh", "ssh_git", "short", "short_git"}

\* the reference naming (h, o, r) in form f
Build(f, h, o, r) ==
    CASE f = "https"     -> HttpsPrefix \o h \o Slash \o o \o Slash \o r
      [] f = "https_git" -> HttpsPrefix \o h \o Slash \o o \o Slash \o r \o GitSuffix
      [] f = "ssh"       -> SshPrefix \o h \o Colon \o o \o Slash \o r
      [] f = "ssh_git"   -> SshPrefix \o h \o Colon \o o \o Slash \o r \o GitSuffix
      [] f = "short"     -> o \o Slash \o r
      [] f = "short_git" -> o \o Slash \o r \o GitSuffix

NoSeg == [host |-> EmptyStr, owner |-> EmptyStr, repo |-> EmptyStr]

Triple(s) == [host |-> s.host, owner |-> s.owner, repo |-> s.repo]

(***************************************************************************)
(* The parser run on one reference                                         *)
(***************************************************************************)
ParseInit ==
    /\ url = EmptyStr
    /\ form = "none"
    /\ seg = NoSeg
    /\ src = NoSource
    /\ prev = NoSource
    /\ home = TRUE
    /\ dirs = [p \in {} |-> TRUE]
    /\ ldirs = {}
    /\ links = [p \in {} |-> TRUE]
    /\ held = [p \in {} |-> TRUE]
    /\ last = [op |-> "none"]
    /\ calls = 0
    /\ StatusNew
    /\ NoApp
    /\ NoScan

\* the user types any text
EnterUrl ==
    /\ form = "none"
    /\ \E s \in RawUrls : url' = s
    /\ form' = "raw"
    /\ UNCHANGED <<seg, src, prev, fsVars, statusVars, appVars, scanVars>>

\* the user names the repository (h, o, r) in one of the accepted forms
EnterForm ==
    /\ form = "none"
    /\ \E f \in Forms, h \in Segs, o \in Segs, r \in Segs :
          /\ url' = Build(f, h, o, r)
          /\ form' = f
          /\ seg' = [host |-> h, owner |-> o, repo |-> r]
    /\ UNCHANGED <<src, prev, fsVars, statusVars, appVars, scanVars>>

Parse ==
    /\ form # "none"
    /\ src = NoSource
    /\ src' = parse(url)
    /\ UNCHANGED <<url, form, seg, prev, fsVars, statusVars, appVars, scanVars>>

ParseNext == EnterUrl \/ EnterForm \/ Parse

SpecParse == ParseInit /\ [][ParseNext]_vars

\* the triple the claim expects of a reference written in the current form
Expected ==
    IF form \in {"short", "short_git"}
    THEN [host |-> GithubHost, owner |-> seg.owner, repo |-> seg.repo]
    ELSE seg

Parsed == form # "none" /\ src # NoSource

\* C1 as stated: every form of (H, O, R) parses to (H, O, R), the shorthand to
\* (github.com, O, R), for all non-empty H, O, R free of '/', ':' and whitespace.
C1_AllFormsSameTriple ==
    (Parsed /\ form \in Forms) => (src.ok /\ Triple(src) = Expected)

\* C1 amended: the forms without a ".git" suffix need a repo that does not itself
\* end in ".git" (the parser strips one trailing ".git"), and the shorthand forms
\* need an owner that does not start with "git@" (such text is read as SSH); under
\* these conditions every form parses to (H, O, R), the shorthand to (github.com, O, R).
C1_FormsSameTripleAmended ==
    (/\ Parsed
     /\ form \in Forms
     /\ (form \in {"https", "ssh", "short"} => ~EndsWith(seg.repo, GitSuffix))
     /\ (form \in {"short", "short_git"} => ~StartsWith(seg.owner, SshPrefix)))
    => (src.ok /\ Triple(src) = Expected)

C1_Witness ==
    /\ Parsed
    /\ form = "short_git"
    /\ src.ok
    /\ src.host = GithubHost
    /\ src.repo = seg.repo
    /\ EndsWith(seg.repo, GitSuffix)

\* C2: parse fails with InvalidUrl or returns a non-empty owner and a non-empty
\* repo; a reference without '/' fails.
C2_OwnerRepoNonEmpty ==
    Parsed =>
        /\ (src.ok => (src.owner # EmptyStr /\ src.repo # EmptyStr))
        /\ (~src.ok => src.err = "InvalidUrl")
        /\ (~HasChar(url, "/") => ~src.ok)

(***************************************************************************)
(* Paths.  A path is the sequence of its components (Path::components):    *)
(* repeated separators, "." components and a trailing separator do not     *)
(* count, which is how PathBuf compares and how the filesystem resolves.   *)
(* The fixed directory names are written as one-symbol components.         *)
(***************************************************************************)
HomeDir == << <<"~">> >>

SkillMd == <<"SKILL.md">>

DotGit == <<".", "g", "i", "t">>

RECURSIVE Components(_)
\* the components of a relative path string
Components(s) ==
    IF s = EmptyStr THEN << >>
    ELSE LET parts == splitn2(s, "/")
             head == IF parts[1] \in {EmptyStr, <<".">>} THEN << >> ELSE <<parts[1]>>
         IN  IF Len(parts) = 1 THEN head ELSE head \o Components(parts[2])

\* PathBuf::join: an absolute argument replaces the path
PathJoin(base, s) == IF StartsWith(s, Slash) THEN Components(s) ELSE base \o Components(s)

Parent(p) == SubSeq(p, 1, Len(p) - 1)

IsPrefix(p, q) == Len(p) <= Len(q) /\ SubSeq(q, 1, Len(p)) = p

\* PluginManager::cache_dir: <home>/.cache/silk/repos
CacheDir == HomeDir \o << <<".cache">>, <<"silk">>, <<"repos">> >>

local_path(source) ==
    PathJoin(PathJoin(PathJoin(CacheDir, source.host), source.owner), source.repo)

(***************************************************************************)
(* Link targets and skills                                                 *)
(***************************************************************************)
LinkTargets == <<"ClaudeCode", "Codex">>

Targets == {LinkTargets[i] : i \in 1..Len(LinkTargets)}

None == [some |-> FALSE, path |-> << >>]

Some(p) == [some |-> TRUE, path |-> p]

skills_dir(t) ==
    IF ~home THEN None
    ELSE IF t = "ClaudeCode" THEN Some(HomeDir \o << <<".claude">>, <<"skills">> >>)
    ELSE Some(HomeDir \o << <<".codex">>, <<"skills">> >>)

claude_skills_dir == skills_dir("ClaudeCode")

\* Skill::new (the description is not modelled)
Skill(name, path, owner, repo) == [name |-> name, path |-> path, owner |-> owner, repo |-> repo]

qualified_name(skill) == skill.owner \o Colon \o skill.repo \o Colon \o skill.name

link_path_for(skill, t) ==
    LET d == skills_dir(t)
    IN  IF d.some THEN Some(PathJoin(d.path, qualified_name(skill))) ELSE None

(***************************************************************************)
(* Two references parsed one after the other                               *)
(***************************************************************************)
PathAlphabet == {<<"a">>, <<"/">>, <<":">>}

PathUrls == {p \o b : p \in {EmptyStr, HttpsPrefix, SshPrefix},
                      b \in Concats(PathAlphabet, MaxPathLen)}

EmptyMap == [p \in {} |-> TRUE]

PathInit == ParseInit

PathEnter ==
    /\ form = "none"
    /\ \E s \in PathUrls : url' = s
    /\ form' = "raw"
    /\ UNCHANGED <<seg, src, prev, fsVars, statusVars, appVars, scanVars>>

\* the accepted source is kept and a second reference is asked for
PathKeep ==
    /\ src.ok
    /\ prev = NoSource
    /\ prev' = src
    /\ src' = NoSource
    /\ url' = EmptyStr
    /\ form' = "none"
    /\ UNCHANGED <<seg, fsVars, statusVars, appVars, scanVars>>

PathNext == PathEnter \/ Parse \/ PathKeep

SpecPath == PathInit /\ [][PathNext]_vars

TwoSources == src.ok /\ prev.ok

\* C3: two accepted sources have the same cache path exactly when they have the
\* same (host, owner, repo).
C3_LocalPathInjective ==
    TwoSources => ((local_path(src) = local_path(prev)) <=> (Triple(src) = Triple(prev)))

\* the skill named n of the plugin parsed from source s (its marker under skills/n)
SkillOf(s, n) == Skill(n, local_path(s) \o <<n, SkillMd>>, s.owner, s.repo)

\* C5: two skills of the same local name whose (owner, repo) differ have different
\* qualified names and different link paths in every target.
C5_QualifiedNamesDiffer ==
    (TwoSources /\ <<src.owner, src.repo>> # <<prev.owner, prev.repo>>) =>
        LET a == SkillOf(src, <<"f">>)
            b == SkillOf(prev, <<"f">>)
        IN  /\ qualified_name(a) # qualified_name(b)
            /\ \A t \in Targets : link_path_for(a, t) # link_path_for(b, t)

(***************************************************************************)
(* The filesystem.                                                         *)
(*   dirs  : the directories of the cache area, each with whether it holds *)
(*           a .git directory and, for a working tree, the directories     *)
(*           below it in the order a walk meets them, each with whether it *)
(*           holds a SKILL.md file;                                        *)
(*   ldirs : the directories of the link area;                             *)
(*   links : the entries of the link area, a symlink (to a directory) or a *)
(*           regular file.                                                 *)
(* The operations on it are written as functions from the filesystem fs =  *)
(* [dirs, ldirs, links] to the result and the filesystem after the call.   *)
(***************************************************************************)
Fs == [dirs |-> dirs, ldirs |-> ldirs, links |-> links]

PlainDir == [git |-> FALSE, tree |-> << >>]

\* the map f without key k
Without(f, k) == [q \in DOMAIN f \ {k} |-> f[q]]

\* the map f with key k set to v
With(f, k, v) == [q \in DOMAIN f \cup {k} |-> IF q = k THEN v ELSE f[q]]

\* the ancestors of p below the home directory, p included
Ancestors(p) == {SubSeq(p, 1, n) : n \in (Len(HomeDir) + 1)..Len(p)}

\* a directory of the cache area exists: one of dirs, or a directory of a working tree
DirExists(fs, p) ==
    \/ p \in DOMAIN fs.dirs
    \/ \E r \in DOMAIN fs.dirs : \E i \in 1..Len(fs.dirs[r].tree) :
          IsPrefix(p, r \o fs.dirs[r].tree[i].rel) /\ IsPrefix(r, p)

\* Path::symlink_metadata().is_ok(): an entry is there, a broken symlink included
symlink_exists(fs, p) == p \in DOMAIN fs.links \/ p \in fs.ldirs

\* Path::exists(): the path resolves, symlinks followed, to an existing entry
PathExists(fs, p) ==
    IF p \in DOMAIN fs.links
    THEN fs.links[p].kind = "file" \/ DirExists(fs, fs.links[p].to)
    ELSE p \in fs.ldirs \/ DirExists(fs, p)

\* is_linked_to with the existence check that does not follow the link
is_linked_to_no_follow(fs, skill, t) ==
    LET lp == link_path_for(skill, t)
    IN  IF lp.some THEN symlink_exists(fs, lp.path) ELSE FALSE

is_linked_to(fs, skill, t) ==
    LET lp == link_path_for(skill, t)
    IN  IF lp.some THEN PathExists(fs, lp.path) ELSE FALSE

is_linked(fs, skill) == is_linked_to(fs, skill, "ClaudeCode")

\* fs::remove_file: removes a symlink or a file; a directory is an error
remove_file(fs, p) ==
    IF p \in DOMAIN fs.links
    THEN [res |-> "Ok", fs |-> [fs EXCEPT !.links = Without(fs.links, p)]]
    ELSE [res |-> "Io", fs |-> fs]

\* link_to that points the symlink at the marker file
link_to_marker_file(fs, skill, t) ==
    LET lp == link_path_for(skill, t)
    IN  IF ~lp.some THEN [res |-> "LinkFailed", fs |-> fs]
        ELSE IF symlink_exists(fs, lp.path) THEN [res |-> "AlreadyLinked", fs |-> fs]
        ELSE [res |-> "Ok",
              fs |-> [fs EXCEPT !.ldirs = fs.ldirs \cup Ancestors(Parent(lp.path)),
                                !.links = With(fs.links, lp.path,
                                               [kind |-> "symlink", to |-> skill.path])]]

\* link_to that replaces an entry found at the link path
link_to_overwrites(fs, skill, t) ==
    LET lp == link_path_for(skill, t)
    IN  IF ~lp.some THEN [res |-> "LinkFailed", fs |-> fs]
        ELSE [res |-> "Ok",
              fs |-> [fs EXCEPT !.ldirs = fs.ldirs \cup Ancestors(Parent(lp.path)),
                                !.links = With(fs.links, lp.path,
                                               [kind |-> "symlink", to |-> Parent(skill.path)])]]

link_to(fs, skill, t) ==
    LET lp == link_path_for(skill, t)
    IN  IF ~lp.some THEN [res |-> "LinkFailed", fs |-> fs]
        ELSE IF symlink_exists(fs, lp.path) THEN [res |-> "AlreadyLinked", fs |-> fs]
        ELSE [res |-> "Ok",
              fs |-> [fs EXCEPT !.ldirs = fs.ldirs \cup Ancestors(Parent(lp.path)),
                                !.links = With(fs.links, lp.path,
                                               [kind |-> "symlink", to |-> Parent(skill.path)])]]

link(fs, skill) == link_to(fs, skill, "ClaudeCode")

unlink_from(fs, skill, t) ==
    LET lp == link_path_for(skill, t)
    IN  IF ~lp.some THEN [res |-> "NotLinked", fs |-> fs]
        ELSE IF ~symlink_exists(fs, lp.path) THEN [res |-> "NotLinked", fs |-> fs]
        ELSE remove_file(fs, lp.path)

unlink(fs, skill) == unlink_from(fs, skill, "ClaudeCode")

remove_skill_symlink(fs, qname) ==
    LET d == claude_skills_dir
    IN  IF ~d.some THEN [res |-> "LinkFailed", fs |-> fs]
        ELSE LET lp == PathJoin(d.path, qname)
             IN  IF symlink_exists(fs, lp) THEN remove_file(fs, lp)
                 ELSE [res |-> "Ok", fs |-> fs]

(***************************************************************************)
(* git.  What the remote holds and whether the network answers is not the  *)
(* program's to decide: the outcome out = [ok, tree] of a git command is   *)
(* an input of the call.                                                   *)
(***************************************************************************)
is_git_repo(fs, path) == path \in DOMAIN fs.dirs /\ fs.dirs[path].git

\* std::fs::create_dir_all in the cache area
create_dir_all(fs, p) ==
    [fs EXCEPT !.dirs = [q \in DOMAIN fs.dirs \cup Ancestors(p) |->
                            IF q \in DOMAIN fs.dirs THEN fs.dirs[q] ELSE PlainDir]]

HasChildren(fs, p) == \E q \in DOMAIN fs.dirs : Len(q) = Len(p) + 1 /\ IsPrefix(p, q)

\* read_dir(p) yields nothing: a repository holds its .git directory
IsEmptyDir(fs, p) == p \in DOMAIN fs.dirs /\ fs.dirs[p] = PlainDir /\ ~HasChildren(fs, p)

\* git clone --depth 1 url dest: git refuses a destination that exists and is not empty
git_clone(fs, u, dest, out) ==
    LET made == create_dir_all(fs, Parent(dest))
        free == \/ dest \notin DOMAIN made.dirs
                \/ (made.dirs[dest] = PlainDir /\ ~HasChildren(made, dest))
    IN  IF out.ok /\ free
        THEN [res |-> "Ok",
              fs |-> [made EXCEPT !.dirs = With(made.dirs, dest,
                                                 [git |-> TRUE, tree |-> out.tree])]]
        ELSE [res |-> "CloneFailed", fs |-> made]

\* git pull --ff-only in path
\* a pull that does not look at the exit status
git_pull_unchecked(fs, path, out) ==
    [res |-> "Ok", fs |-> IF out.ok THEN [fs EXCEPT !.dirs[path].tree = out.tree] ELSE fs]

git_pull(fs, path, out) ==
    IF out.ok
    THEN [res |-> "Ok", fs |-> [fs EXCEPT !.dirs[path].tree = out.tree]]
    ELSE [res |-> "UpdateFailed", fs |-> fs]

(***************************************************************************)
(* Scanning                                                                *)
(***************************************************************************)
VcsDirs == {DotGit, <<".", "s", "v", "n">>, <<".", "h", "g">>}

Unknown == <<"unknown">>

\* a name that is bytes and no UTF-8
NotUtf8 == <<"\\xFF">>

\* OsStr::to_str is Some
to_str(name) == name # NotUtf8

\* dir_name(p).unwrap_or("unknown"): the last component when there is one and it is a
\* String
dir_name(p) == IF Len(p) = 0 \/ ~to_str(p[Len(p)]) THEN Unknown ELSE p[Len(p)]

derive_skill_name(root, skill_path) ==
    IF Parent(skill_path) = root THEN dir_name(root) ELSE dir_name(Parent(skill_path))

\* a directory the walk reaches: no component of its path below the root is a VCS directory
Walked(rel) == \A i \in 1..Len(rel) : rel[i] \notin VcsDirs

RECURSIVE ScanFrom(_, _, _)
ScanFrom(root, tree, i) ==
    IF i > Len(tree) THEN << >>
    ELSE LET e == tree[i]
             marker == root \o e.rel \o <<SkillMd>>
         IN  (IF e.marker /\ Walked(e.rel)
              THEN << <<derive_skill_name(root, marker), marker>> >>
              ELSE << >>) \o ScanFrom(root, tree, i + 1)

\* the (name, marker path) pairs, in the order of the walk
scan_for_skills(fs, root) == ScanFrom(root, fs.dirs[root].tree, 1)

(***************************************************************************)
(* Plugin                                                                  *)
(***************************************************************************)
NoPlugin == [host |-> EmptyStr, owner |-> EmptyStr, repo |-> EmptyStr, path |-> << >>,
             skills |-> << >>]

build(fs, host, owner, repo, path) ==
    LET found == scan_for_skills(fs, path)
    IN  [host |-> host, owner |-> owner, repo |-> repo, path |-> path,
         skills |-> [i \in 1..Len(found) |-> Skill(found[i][1], found[i][2], owner, repo)]]

\* install that always clones
install_always_clones(fs, source, path, out) ==
    LET g == git_clone(fs, source.url, path, out)
    IN  IF g.res # "Ok"
        THEN [res |-> g.res, fs |-> g.fs, plugin |-> NoPlugin, git |-> "clone"]
        ELSE [res |-> "Ok", fs |-> g.fs, git |-> "clone",
              plugin |-> build(g.fs, source.host, source.owner, source.repo, path)]

\* Plugin::install
install(fs, source, path, out) ==
    LET pull == is_git_repo(fs, path)
        g == IF pull THEN git_pull(fs, path, out) ELSE git_clone(fs, source.url, path, out)
        cmd == IF pull THEN "pull" ELSE "clone"
    IN  IF g.res # "Ok"
        THEN [res |-> g.res, fs |-> g.fs, plugin |-> NoPlugin, git |-> cmd]
        ELSE [res |-> "Ok", fs |-> g.fs, git |-> cmd,
              plugin |-> build(g.fs, source.host, source.owner, source.repo, path)]

\* the skills of a plugin that are linked to Claude Code, as (qualified name, marker path)
LinkedBefore(fs, plugin) ==
    LET on == SelectSeq(plugin.skills, LAMBDA sk : is_linked(fs, sk))
    IN  [i \in 1..Len(on) |-> <<qualified_name(on[i]), on[i].path>>]

HasName(plugin, qname) == \E i \in 1..Len(plugin.skills) : qualified_name(plugin.skills[i]) = qname

\* HashMap::get on the collected map: of two skills of one name the later one stays
NewPath(plugin, qname) ==
    LET i == CHOOSE k \in 1..Len(plugin.skills) :
                 /\ qualified_name(plugin.skills[k]) = qname
                 /\ \A j \in (k + 1)..Len(plugin.skills) : qualified_name(plugin.skills[j]) # qname
    IN  plugin.skills[i].path

\* Iterator::find: the first skill of that name
FindSkill(plugin, qname) ==
    LET i == CHOOSE k \in 1..Len(plugin.skills) :
                 /\ qualified_name(plugin.skills[k]) = qname
                 /\ \A j \in 1..(k - 1) : qualified_name(plugin.skills[j]) # qname
    IN  plugin.skills[i]

RECURSIVE Reconcile(_, _, _, _)
\* the loop over the skills linked before the pull
Reconcile(fs, new_plugin, before, i) ==
    IF i > Len(before) THEN fs
    ELSE LET name == before[i][1]
             old_path == before[i][2]
             next == IF ~HasName(new_plugin, name)
                     THEN remove_skill_symlink(fs, name).fs
                     ELSE IF NewPath(new_plugin, name) # old_path
                     THEN link(remove_skill_symlink(fs, name).fs, FindSkill(new_plugin, name)).fs
                     ELSE fs
         IN  Reconcile(next, new_plugin, before, i + 1)

\* update that pulls without asking whether the path is a repository
update_skips_check(fs, plugin, out) ==
    LET before == LinkedBefore(fs, plugin)
        g == git_pull(create_dir_all(fs, plugin.path), plugin.path, out)
    IN  IF g.res # "Ok"
        THEN [res |-> "UpdateFailed", stderr |-> "git", fs |-> g.fs, plugin |-> NoPlugin,
              git |-> "pull"]
        ELSE LET new_plugin == build(g.fs, plugin.host, plugin.owner, plugin.repo, plugin.path)
             IN  [res |-> "Ok", stderr |-> "", git |-> "pull", plugin |-> new_plugin,
                  fs |-> Reconcile(g.fs, new_plugin, before, 1)]

\* Plugin::update from the pull on, with the linked skills collected as before
update_after(fs, plugin, out, before) ==
    LET g == git_pull(fs, plugin.path, out)
    IN  IF g.res # "Ok"
        THEN [res |-> "UpdateFailed", stderr |-> "git", fs |-> g.fs, plugin |-> NoPlugin,
              git |-> "pull"]
        ELSE LET new_plugin == build(g.fs, plugin.host, plugin.owner, plugin.repo,
                                     plugin.path)
             IN  [res |-> "Ok", stderr |-> "", git |-> "pull", plugin |-> new_plugin,
                  fs |-> Reconcile(g.fs, new_plugin, before, 1)]

\* Plugin::update
update(fs, plugin, out) ==
    IF ~is_git_repo(fs, plugin.path)
    THEN [res |-> "UpdateFailed", stderr |-> "plugin is not installed", fs |-> fs,
          plugin |-> NoPlugin, git |-> "none"]
    ELSE update_after(fs, plugin, out, LinkedBefore(fs, plugin))

RECURSIVE UnlinkAll(_, _, _)
\* the loop that unlinks every skill of a plugin from Claude Code, errors ignored
UnlinkAll(fs, skills, i) ==
    IF i > Len(skills) THEN fs ELSE UnlinkAll(unlink(fs, skills[i]).fs, skills, i + 1)

\* fs::remove_dir_all
remove_dir_all(fs, p) ==
    [fs EXCEPT !.dirs = [q \in {d \in DOMAIN fs.dirs : ~IsPrefix(p, d)} |-> fs.dirs[q]]]

\* remove the directory when it exists and holds nothing
PruneIfEmpty(fs, p) ==
    IF IsEmptyDir(fs, p)
    THEN [fs EXCEPT !.dirs = Without(fs.dirs, p)]
    ELSE fs

\* remove that goes on without looking for the directory
remove_unchecked(fs, plugin) ==
    LET unlinked == UnlinkAll(fs, plugin.skills, 1)
        gone == remove_dir_all(unlinked, plugin.path)
    IN  [res |-> "Ok", fs |-> gone]

\* Plugin::remove
remove(fs, plugin) ==
    IF ~DirExists(fs, plugin.path)
    THEN [res |-> "NotInstalled", fs |-> fs]
    ELSE LET unlinked == UnlinkAll(fs, plugin.skills, 1)
             gone == remove_dir_all(unlinked, plugin.path)
             owner_dir == Parent(plugin.path)
             host_dir == Parent(owner_dir)
             pruned == IF IsEmptyDir(gone, owner_dir)
                       THEN PruneIfEmpty([gone EXCEPT !.dirs = Without(gone.dirs, owner_dir)],
                                         host_dir)
                       ELSE gone
         IN  [res |-> "Ok", fs |-> pruned]

(***************************************************************************)
(* PluginManager                                                           *)
(***************************************************************************)
is_installed(fs, source) == is_git_repo(fs, local_path(source))

\* the repositories at any depth below the cache root
RepoDirs_any_depth(fs) ==
    IF CacheDir \notin DOMAIN fs.dirs THEN {}
    ELSE {q \in DOMAIN fs.dirs :
            /\ Len(q) >= Len(CacheDir) + 3
            /\ IsPrefix(CacheDir, q)
            /\ is_git_repo(fs, q)}

\* the directories exactly three levels below the cache root that hold a .git directory
RepoDirs(fs) ==
    IF CacheDir \notin DOMAIN fs.dirs THEN {}
    ELSE {q \in DOMAIN fs.dirs :
            /\ Len(q) = Len(CacheDir) + 3
            /\ IsPrefix(CacheDir, q)
            /\ is_git_repo(fs, q)}

\* the Plugin list_installed builds for a repository directory
ListedPlugin(fs, q) == build(fs, q[Len(q) - 2], q[Len(q) - 1], q[Len(q)], q)

\* PluginManager::list_installed, as the set of the plugins it returns
list_installed(fs) == {ListedPlugin(fs, q) : q \in RepoDirs(fs)}

\* PluginManager::install
manager_install(fs, u, out) ==
    LET source == parse(u)
    IN  IF ~source.ok
        THEN [res |-> "InvalidUrl", fs |-> fs, plugin |-> NoPlugin, git |-> "none"]
        ELSE install(fs, source, local_path(source), out)

(***************************************************************************)
(* The library driven by a caller: install, update, remove, link, unlink   *)
(***************************************************************************)
OwnerO == <<"o">>

RepoR == <<"r">>

OtherHost == <<"g", "l">>

\* the same repository in two forms, a repository of the same owner and name on
\* another host, and a text that names no repository
Refs == {OwnerO \o Slash \o RepoR,
         HttpsPrefix \o GithubHost \o Slash \o OwnerO \o Slash \o RepoR \o GitSuffix,
         SshPrefix \o OtherHost \o Colon \o OwnerO \o Slash \o RepoR,
         OwnerO \o RepoR}

TreeDirs == {<< <<"f">> >>, << <<"x">>, <<"f">> >>}

RECURSIVE TreesUpTo(_)
\* the working trees of at most n marker directories, no directory twice
TreesUpTo(n) ==
    IF n = 0 THEN {<< >>}
    ELSE LET S == TreesUpTo(n - 1)
         IN  S \cup UNION {{Append(t, [rel |-> d, marker |-> TRUE]) :
                                d \in {e \in TreeDirs : \A i \in 1..Len(t) : t[i].rel # e}} :
                            t \in S}

Trees == TreesUpTo(MaxTreeLen)

GitOutcomes == {[ok |-> FALSE, tree |-> << >>]} \cup {[ok |-> TRUE, tree |-> t] : t \in Trees}

NoPath == << >>

NoSkill == Skill(EmptyStr, NoPath, EmptyStr, EmptyStr)

\* what the caller did last: the call, its argument (a reference, a plugin's path or
\* a skill and a target), what it returned and the git command it ran
Call(op, res, git, stderr, arg, skill, target) ==
    [op |-> op, res |-> res, git |-> git, stderr |-> stderr, arg |-> arg,
     skill |-> skill, target |-> target]

Init ==
    /\ url = EmptyStr
    /\ form = "none"
    /\ seg = NoSeg
    /\ src = NoSource
    /\ prev = NoSource
    /\ home \in BOOLEAN
    /\ dirs = EmptyMap
    /\ ldirs = {}
    /\ links = EmptyMap
    /\ held = EmptyMap
    /\ last = Call("none", "none", "none", "", NoPath, NoSkill, "none")
    /\ calls = 0
    /\ StatusNew
    /\ NoApp
    /\ NoScan

SetFs(fs) ==
    /\ dirs' = fs.dirs
    /\ ldirs' = fs.ldirs
    /\ links' = fs.links

Count ==
    /\ calls < MaxCalls
    /\ calls' = calls + 1

\* PluginManager::install(u) for a reference of refs, git answering with one of outs;
\* the caller keeps the Plugin it returns
InstallOf(refs, outs) ==
    /\ Count
    /\ \E u \in refs, out \in outs :
        \E r \in {manager_install(Fs, u, out)} :
            /\ SetFs(r.fs)
            /\ held' = IF r.res = "Ok" THEN With(held, r.plugin.path, r.plugin) ELSE held
            /\ last' = Call("install", r.res, r.git, "", u, NoSkill, "none")
    /\ UNCHANGED <<parseVars, statusVars, appVars, scanVars, home>>

Install == InstallOf(Refs, GitOutcomes)

\* Plugin::update on a Plugin the caller holds, git answering with one of outs; the
\* caller keeps the new Plugin
UpdateOf(outs) ==
    /\ Count
    /\ \E p \in DOMAIN held, out \in outs :
        \E r \in {update(Fs, held[p], out)} :
            /\ SetFs(r.fs)
            /\ held' = IF r.res = "Ok" THEN With(held, p, r.plugin) ELSE held
            /\ last' = Call("update", r.res, r.git, r.stderr, p, NoSkill, "none")
    /\ UNCHANGED <<parseVars, statusVars, appVars, scanVars, home>>

Update == UpdateOf(GitOutcomes)

\* Plugin::remove on a Plugin the caller holds (remove borrows the Plugin: the value
\* is still in the caller's hands afterwards)
Remove ==
    /\ Count
    /\ \E p \in DOMAIN held :
        \E r \in {remove(Fs, held[p])} :
            /\ SetFs(r.fs)
            /\ last' = Call("remove", r.res, "none", "", p, NoSkill, "none")
    /\ UNCHANGED <<parseVars, statusVars, appVars, scanVars, home, held>>

\* Skill::link_to on a skill of a Plugin the caller holds
LinkTo ==
    /\ Count
    /\ \E p \in DOMAIN held, t \in Targets :
        \E i \in 1..Len(held[p].skills) :
            \E r \in {link_to(Fs, held[p].skills[i], t)} :
                /\ SetFs(r.fs)
                /\ last' = Call("link_to", r.res, "none", "", p, held[p].skills[i], t)
    /\ UNCHANGED <<parseVars, statusVars, appVars, scanVars, home, held>>

\* Skill::unlink_from on a skill of a Plugin the caller holds
UnlinkFrom ==
    /\ Count
    /\ \E p \in DOMAIN held, t \in Targets :
        \E i \in 1..Len(held[p].skills) :
            \E r \in {unlink_from(Fs, held[p].skills[i], t)} :
                /\ SetFs(r.fs)
                /\ last' = Call("unlink_from", r.res, "none", "", p, held[p].skills[i], t)
    /\ UNCHANGED <<parseVars, statusVars, appVars, scanVars, home, held>>

\* something other than the program writes a regular file where a link would go
PlaceFile ==
    /\ Count
    /\ \E p \in DOMAIN held, t \in Targets :
        \E i \in 1..Len(held[p].skills) :
            LET lp == link_path_for(held[p].skills[i], t)
            IN  /\ lp.some
                /\ ~symlink_exists(Fs, lp.path)
                /\ ldirs' = ldirs \cup Ancestors(Parent(lp.path))
                /\ links' = With(links, lp.path, [kind |-> "file", to |-> NoPath])
                /\ last' = Call("place_file", "Ok", "none", "", p, held[p].skills[i], t)
    /\ UNCHANGED <<parseVars, statusVars, appVars, scanVars, home, held, dirs>>

Next == Install \/ Update \/ Remove \/ LinkTo \/ UnlinkFrom \/ PlaceFile

Spec == Init /\ [][Next]_vars

(***************************************************************************)
(* Properties of the library                                               *)
(***************************************************************************)
Identity(pl) == Triple(pl)

SkillsOf(pl) == {pl.skills[i] : i \in 1..Len(pl.skills)}

HeldSkills == UNION {SkillsOf(held[p]) : p \in DOMAIN held}

\* the step just taken was the call op
Did(op) == calls' = calls + 1 /\ last'.op = op

FsAfter == [dirs |-> dirs', ldirs |-> ldirs', links |-> links']

\* C4: no two skills of two installed plugins of different (host, owner, repo) have
\* the same qualified name, nor the same link path in a target.
C4_QualifiedNamesUnique ==
    \A P \in list_installed(Fs), Q \in list_installed(Fs) :
        Identity(P) # Identity(Q) =>
            \A a \in SkillsOf(P), b \in SkillsOf(Q) :
                /\ qualified_name(a) # qualified_name(b)
                /\ \A t \in Targets : link_path_for(a, t) # link_path_for(b, t)

\* the entry at the link path is there and leads to something that exists: a file, or
\* a symlink whose directory is in the cache area
Resolves(lp) ==
    /\ lp \in DOMAIN links
    /\ \/ links[lp].kind = "file"
       \/ links[lp].to \in DOMAIN dirs
       \/ \E r \in DOMAIN dirs : \E i \in 1..Len(dirs[r].tree) :
             \E n \in 1..Len(dirs[r].tree[i].rel) :
                 links[lp].to = r \o SubSeq(dirs[r].tree[i].rel, 1, n)

\* C6: is_linked_to(T) is decided by the filesystem as it is at the call: true exactly
\* when the link path resolves to an existing entry, false for an absent entry and for
\* a broken symlink; right after a link_to that succeeded on an existing skill directory
\* it is true, and right after an unlink_from that succeeded it is false.
C6_IsLinkedReadsFilesystem ==
    /\ \A sk \in HeldSkills, t \in Targets :
          LET lp == link_path_for(sk, t)
          IN  is_linked_to(Fs, sk, t) <=> (lp.some /\ Resolves(lp.path))
    /\ (last.op = "link_to" /\ last.res = "Ok" /\ DirExists(Fs, Parent(last.skill.path)))
          => is_linked_to(Fs, last.skill, last.target)
    /\ (last.op = "unlink_from" /\ last.res = "Ok")
          => ~is_linked_to(Fs, last.skill, last.target)

\* a broken symlink sits at the link path of a held skill, which is not linked
C6_Witness ==
    \E sk \in HeldSkills, t \in Targets :
        LET lp == link_path_for(sk, t)
        IN  /\ lp.some
            /\ lp.path \in DOMAIN links
            /\ links[lp.path].kind = "symlink"
            /\ ~is_linked_to(Fs, sk, t)

Occupied(fs, sk, t) == link_path_for(sk, t).some /\ symlink_exists(fs, link_path_for(sk, t).path)

\* C7: link_to on an occupied link path returns AlreadyLinked and changes nothing;
\* unlink_from on a link path that holds nothing returns NotLinked and changes nothing.
C7_RefusalsChangeNothing ==
    [][/\ (Did("link_to") /\ Occupied(Fs, last'.skill, last'.target))
            => (last'.res = "AlreadyLinked" /\ UNCHANGED <<dirs, ldirs, links>>)
       /\ (Did("unlink_from") /\ ~Occupied(Fs, last'.skill, last'.target))
            => (last'.res = "NotLinked" /\ UNCHANGED <<dirs, ldirs, links>>)]_vars

\* link_to was refused on a broken symlink
C7_Witness ==
    /\ last.op = "link_to"
    /\ last.res = "AlreadyLinked"
    /\ ~is_linked_to(Fs, last.skill, last.target)
    /\ links[link_path_for(last.skill, last.target).path].kind = "symlink"

\* the state of the link path a successful link_to leaves
Linked(fs, sk, t) ==
    LET lp == link_path_for(sk, t).path
    IN  /\ Parent(lp) \in fs.ldirs
        /\ lp \in DOMAIN fs.links
        /\ fs.links[lp] = [kind |-> "symlink", to |-> Parent(sk.path)]

IsSymlink(fs, sk, t) ==
    /\ Occupied(fs, sk, t)
    /\ link_path_for(sk, t).path \in DOMAIN fs.links
    /\ fs.links[link_path_for(sk, t).path].kind = "symlink"

\* C8 as stated: link_to on a free link path creates the target directory and the
\* symlink to the directory of the marker, and is_linked_to is then true; unlink_from
\* on a symlink, valid or broken, succeeds and leaves the link path free.
C8_LinkThenLinked ==
    [][/\ (Did("link_to") /\ home /\ ~Occupied(Fs, last'.skill, last'.target))
            => /\ last'.res = "Ok"
               /\ Linked(FsAfter, last'.skill, last'.target)
               /\ is_linked_to(FsAfter, last'.skill, last'.target)
       /\ (Did("unlink_from") /\ IsSymlink(Fs, last'.skill, last'.target))
            => /\ last'.res = "Ok"
               /\ ~Occupied(FsAfter, last'.skill, last'.target)]_vars

\* C8 amended: as stated, except that is_linked_to is true after the link_to only when
\* the skill's directory exists; a link made to a directory that is gone is a broken
\* symlink, and is_linked_to is false.
C8_LinkThenLinkedIfDirExists ==
    [][/\ (Did("link_to") /\ home /\ ~Occupied(Fs, last'.skill, last'.target))
            => /\ last'.res = "Ok"
               /\ Linked(FsAfter, last'.skill, last'.target)
               /\ is_linked_to(FsAfter, last'.skill, last'.target)
                     <=> DirExists(Fs, Parent(last'.skill.path))
       /\ (Did("unlink_from") /\ IsSymlink(Fs, last'.skill, last'.target))
            => /\ last'.res = "Ok"
               /\ ~Occupied(FsAfter, last'.skill, last'.target)]_vars

\* a link was made on a free path, in a target directory made by the call, and the
\* skill is linked
C8_Witness ==
    /\ last.op = "link_to"
    /\ last.res = "Ok"
    /\ last.target = "Codex"
    /\ is_linked_to(Fs, last.skill, last.target)
    /\ ~is_linked_to(Fs, last.skill, "ClaudeCode")

\* the cache directories that are repositories
Repos(fs) == {q \in DOMAIN fs.dirs : fs.dirs[q].git}

\* C9: install of a reference whose cache path already holds a repository pulls instead
\* of cloning and does not fail for the plugin being there; it leaves one cache
\* directory for the identity, and a call that succeeds returns the Plugin of the same
\* (host, owner, repo, path) with the skills of a fresh scan.
C9_InstallIdempotent ==
    [][Did("install")
          => \A source \in {parse(last'.arg)} :
                (source.ok /\ is_installed(Fs, source))
                   => \A path \in {local_path(source)} :
                         /\ last'.git = "pull"
                         /\ last'.res \in {"Ok", "UpdateFailed"}
                         /\ DOMAIN dirs' = DOMAIN dirs
                         /\ Repos(FsAfter) = Repos(Fs)
                         /\ last'.res = "Ok"
                               => /\ path \in DOMAIN held'
                                  /\ held'[path] = build(FsAfter, source.host, source.owner,
                                                         source.repo, path)
                                  /\ held'[path].path = path
                                  /\ Identity(held'[path]) = Triple(source)]_vars

\* a later install of a reference succeeded by a pull and returned a Plugin with skills
C9_Witness ==
    /\ last.op = "install"
    /\ last.git = "pull"
    /\ last.res = "Ok"
    /\ calls >= 2
    /\ Len(held[local_path(parse(last.arg))].skills) > 0

\* C10: update of a Plugin whose path holds no repository returns UpdateFailed with the
\* diagnostic "plugin is not installed"; it runs no pull, scans nothing, and makes or
\* removes no link in any target directory.
C10_UpdateNeedsRepository ==
    [][(Did("update") /\ ~is_git_repo(Fs, last'.arg))
          => /\ last'.res = "UpdateFailed"
             /\ last'.stderr = "plugin is not installed"
             /\ last'.git = "none"
             /\ UNCHANGED <<dirs, ldirs, links, held>>]_vars

\* update was refused for a removed plugin of which a skill is still linked somewhere
C10_Witness ==
    /\ last.op = "update"
    /\ last.res = "UpdateFailed"
    /\ last.stderr = "plugin is not installed"
    /\ links # EmptyMap

\* the entry at the link path of a skill in a target: what is there, or nothing
NoEntry == [kind |-> "none", to |-> NoPath]

EntryAt(fs, sk, t) ==
    LET lp == link_path_for(sk, t)
    IN  IF lp.some /\ lp.path \in DOMAIN fs.links THEN fs.links[lp.path] ELSE NoEntry

\* the Plugin an update step was called on, and the Plugin it returned
Updated == Did("update") /\ last'.res = "Ok"

OldPlugin == held[last'.arg]

NewPlugin == held'[last'.arg]

\* the new scan holds the qualified name of sk at the marker path of sk
SamePlace(new, sk) ==
    \E b \in SkillsOf(new) : qualified_name(b) = qualified_name(sk) /\ b.path = sk.path

\* the skills of the new scan that have the qualified name of sk
Namesakes(new, sk) == {b \in SkillsOf(new) : qualified_name(b) = qualified_name(sk)}

\* C11: when update succeeds, a skill that was linked in a target when the update
\* started and whose qualified name the new scan does not hold has no entry at its
\* link path in that target.
C11_RemovedSkillUnlinked ==
    [][Updated
          => \A sk \in SkillsOf(OldPlugin), t \in Targets :
                (is_linked_to(Fs, sk, t) /\ Namesakes(NewPlugin, sk) = {})
                   => ~Occupied(FsAfter, sk, t)]_vars

\* C12: when update succeeds, a skill that was linked in a target when the update
\* started and whose qualified name the new scan holds at another marker path has, at
\* its link path in that target, a symlink to the new directory of the marker, and the
\* new skill is linked in that target.
C12_MovedSkillRelinked ==
    [][Updated
          => \A sk \in SkillsOf(OldPlugin), t \in Targets :
                (/\ is_linked_to(Fs, sk, t)
                 /\ Namesakes(NewPlugin, sk) # {}
                 /\ ~SamePlace(NewPlugin, sk))
                   => \E b \in Namesakes(NewPlugin, sk) :
                         /\ EntryAt(FsAfter, sk, t) = [kind |-> "symlink", to |-> Parent(b.path)]
                         /\ is_linked_to(FsAfter, b, t)]_vars

\* C13: when update succeeds, a skill that was linked in a target when the update
\* started and whose qualified name the new scan holds at the same marker path has the
\* same entry at its link path in that target before and after.
C13_UnchangedSkillUntouched ==
    [][Updated
          => \A sk \in SkillsOf(OldPlugin), t \in Targets :
                (is_linked_to(Fs, sk, t) /\ SamePlace(NewPlugin, sk))
                   => EntryAt(FsAfter, sk, t) = EntryAt(Fs, sk, t)]_vars

\* C15: after a remove that succeeds, no skill of the removed plugin has an entry at
\* its link path in any target.
C15_RemoveLeavesNoLink ==
    [][(Did("remove") /\ last'.res = "Ok")
          => \A sk \in SkillsOf(held[last'.arg]), t \in Targets :
                ~Occupied(FsAfter, sk, t)]_vars

(***************************************************************************)
(* The cache area: repositories side by side and one inside another        *)
(***************************************************************************)
RepoQ == <<"q">>

Nested == <<"n">>

\* a repository, a repository whose path lies below it (a repo segment of two parts),
\* a repository of the same owner, and a repository of the same name on another host
CacheRefs == {HttpsPrefix \o OtherHost \o Slash \o OwnerO \o Slash \o RepoR,
              HttpsPrefix \o OtherHost \o Slash \o OwnerO \o Slash \o RepoR \o Slash \o Nested,
              SshPrefix \o OtherHost \o Colon \o OwnerO \o Slash \o RepoQ,
              OwnerO \o Slash \o RepoR}

\* git fails, or fetches a repository that holds no skill
BareOutcomes == {[ok |-> FALSE, tree |-> << >>], [ok |-> TRUE, tree |-> << >>]}

CacheInstall == InstallOf(CacheRefs, BareOutcomes)

CacheUpdate == UpdateOf(BareOutcomes)

\* PluginManager::list_installed; the caller keeps the Plugins it returns and no other
CacheList ==
    /\ Count
    /\ \E L \in {list_installed(Fs)} :
          /\ held' = [p \in {P.path : P \in L} |-> CHOOSE P \in L : P.path = p]
          /\ last' = Call("list_installed", "Ok", "none", "", NoPath, NoSkill, "none")
    /\ UNCHANGED <<parseVars, statusVars, appVars, scanVars, home, dirs, ldirs, links>>

CacheNext == CacheInstall \/ CacheUpdate \/ Remove \/ CacheList

SpecCache == Init /\ [][CacheNext]_vars

\* the directory holds something other than the directory gone
HoldsOther(fs, p, gone) ==
    \/ fs.dirs[p] # PlainDir
    \/ \E q \in DOMAIN fs.dirs : Len(q) = Len(p) + 1 /\ IsPrefix(p, q) /\ q # gone

\* C16: after a remove that succeeds the plugin directory is gone; the owner directory
\* is deleted exactly when it held nothing else; the host directory is deleted exactly
\* when the owner directory was deleted and the host directory held nothing else; the
\* cache root and the directory of every other installed plugin stay.
C16_RemovePrunesTwoLevels ==
    [][(Did("remove") /\ last'.res = "Ok")
          => LET path == last'.arg
                 owner_dir == Parent(path)
                 host_dir == Parent(owner_dir)
             IN  /\ path \notin DOMAIN dirs'
                 /\ owner_dir \notin DOMAIN dirs' <=> ~HoldsOther(Fs, owner_dir, path)
                 /\ host_dir \notin DOMAIN dirs'
                       <=> (~HoldsOther(Fs, owner_dir, path) /\ ~HoldsOther(Fs, host_dir, owner_dir))
                 /\ CacheDir \in DOMAIN dirs'
                 /\ \A q \in Repos(Fs) \ {path} : q \in DOMAIN dirs']_vars

\* a directory three levels below the cache root
RepoLevel(q) == Len(q) = Len(CacheDir) + 3 /\ IsPrefix(CacheDir, q)

MaxTime == 4

STATUS_DISPLAY_DURATION == 3

StatusKinds == {"Info", "Progress", "Success", "Error"}

StatusEntry(id, message, kind, at) ==
    [id |-> id, message |-> message, kind |-> kind, created_at |-> at]

\* Iterator::find: the first entry of that id, 0 when there is none
FindEntry(entries, id) ==
    IF \E i \in 1..Len(entries) : entries[i].id = id
    THEN CHOOSE i \in 1..Len(entries) :
             /\ entries[i].id = id
             /\ \A j \in 1..(i - 1) : entries[j].id # id
    ELSE 0

\* add that pushes an entry whether or not the id is there
add_always_pushes(entries, id, message, kind, t) ==
    Append(entries, StatusEntry(id, message, kind, t))

\* StatusManager::add at time t
add(entries, id, message, kind, t) ==
    LET i == FindEntry(entries, id)
    IN  IF i # 0
        THEN [entries EXCEPT ![i] = StatusEntry(id, message, kind, t)]
        ELSE Append(entries, StatusEntry(id, message, kind, t))

\* StatusManager::remove
status_remove(entries, id) == SelectSeq(entries, LAMBDA e : e.id # id)

clear_completed(entries) == SelectSeq(entries, LAMBDA e : e.kind = "Progress")

\* clear_expired that keeps an entry through the second in which it comes of age
clear_expired_late(entries, t) ==
    SelectSeq(entries, LAMBDA e : e.kind = "Progress" \/ t - e.created_at <= STATUS_DISPLAY_DURATION)

\* StatusManager::clear_expired at time t
clear_expired(entries, t) ==
    SelectSeq(entries, LAMBDA e : e.kind = "Progress" \/ t - e.created_at < STATUS_DISPLAY_DURATION)

StatusIds == {"x", "y"}

StatusMessages == {"m1", "m2"}

\* the StatusManager call made last: its name and arguments
StatusCall(op, id, message, kind) ==
    [op |-> op, id |-> id, message |-> message, kind |-> kind]

\* StatusManager::new, nothing else in use
StatusInit == ParseInit

StatusFrame ==
    UNCHANGED <<parseVars, appVars, scanVars, home, dirs, ldirs, links, held, calls>>

\* the order of first adds after an add of id
NoteAdded(ids, id) ==
    IF \E i \in 1..Len(ids) : ids[i] = id THEN ids ELSE Append(ids, id)

\* StatusManager::add of an id of ids with one of the messages given for it
StatusAddOf(ids, messages) ==
    /\ \E id \in ids, k \in StatusKinds : \E m \in messages[id] :
          /\ status' = add(status, id, m, k, now)
          /\ first_added' = NoteAdded(first_added, id)
          /\ last' = StatusCall("add", id, m, k)
    /\ shown' = NotShown
    /\ UNCHANGED now
    /\ StatusFrame

AnyMessage == [id \in StatusIds |-> StatusMessages]

StatusAdd == StatusAddOf(StatusIds, AnyMessage)

StatusRemoveOf(ids) ==
    /\ \E id \in ids :
          /\ status' = status_remove(status, id)
          /\ last' = StatusCall("remove", id, "", "")
    /\ shown' = NotShown
    /\ UNCHANGED <<now, first_added>>
    /\ StatusFrame

StatusRemove == StatusRemoveOf(StatusIds)

ClearCompleted ==
    /\ status' = clear_completed(status)
    /\ last' = StatusCall("clear_completed", "", "", "")
    /\ shown' = NotShown
    /\ UNCHANGED <<now, first_added>>
    /\ StatusFrame

ClearExpired ==
    /\ status' = clear_expired(status, now)
    /\ last' = StatusCall("clear_expired", "", "", "")
    /\ shown' = NotShown
    /\ UNCHANGED <<now, first_added>>
    /\ StatusFrame

\* a second passes
Tick ==
    /\ now < MaxTime
    /\ now' = now + 1
    /\ last' = StatusCall("tick", "", "", "")
    /\ shown' = NotShown
    /\ UNCHANGED <<status, first_added>>
    /\ StatusFrame

StatusNext == StatusAdd \/ StatusRemove \/ ClearCompleted \/ ClearExpired \/ Tick

SpecStatus == StatusInit /\ [][StatusNext]_vars

NoTwoOfOneId(entries) ==
    \A i \in 1..Len(entries), j \in 1..Len(entries) : entries[i].id = entries[j].id => i = j

\* C20: no two entries share an id after any calls of add, remove, clear_completed
\* and clear_expired; add on an id that is there puts the message, kind and time of the
\* call in that entry and leaves the number of entries and every other entry as they
\* were; add on an id that is not there appends one entry.
C20_AddKeyedById ==
    [][/\ NoTwoOfOneId(status')
       /\ last'.op = "add"
             => LET i == FindEntry(status, last'.id)
                    e == StatusEntry(last'.id, last'.message, last'.kind, now)
                IN  IF i # 0
                    THEN /\ Len(status') = Len(status)
                         /\ status'[i] = e
                         /\ \A j \in 1..Len(status) : j # i => status'[j] = status[j]
                    ELSE status' = Append(status, e)]_vars

\* x was added as Progress and then as Success with another message, before y: there
\* is one entry of x, the first, reading the second message
C20_Witness ==
    /\ last = StatusCall("add", "x", "m2", "Success")
    /\ Len(status) = 2
    /\ status[1] = StatusEntry("x", "m2", "Success", now)
    /\ status[2].id = "y"
    /\ status[2].created_at < now

(***************************************************************************)
(* The App: the main loop starts background jobs, each a thread that runs   *)
(* one library call and sends its Result over a channel of its own, and    *)
(* polls the channels.  A channel is "running" until its thread has sent,  *)
(* "sent" until try_recv has taken the Result, "received" from then on.    *)
(* The fields of the App that only say what the screen shows (view, input, *)
(* list states, search) are left out; the text typed is an input of        *)
(* start_install, the skill and the target chosen are inputs of the link   *)
(* toggle.                                                                 *)
(***************************************************************************)
\* background jobs started in one behaviour
MaxJobs == 2

\* steps of the main loop and the threads in one behaviour
MaxSteps == 7

\* the references typed: a repository, a text that names no repository, and nothing
AppRefs == {OwnerO \o Slash \o RepoR, OwnerO \o RepoR, EmptyStr}

\* git fails, or fetches a repository with the skill f
AppOutcomes == {[ok |-> FALSE, tree |-> << >>],
                [ok |-> TRUE, tree |-> << [rel |-> << <<"f">> >>, marker |-> TRUE] >>]}

\* format!("{}/{}", plugin.owner, plugin.name())
PluginName(plugin) == plugin.owner \o Slash \o plugin.repo

\* what a step of the App was: the method or thread body, who ran it, what the library
\* call in it returned, and the channel it was about
Step(op, by, res, ch) == [op |-> op, by |-> by, res |-> res, ch |-> ch]

\* a removal that takes the last element whatever the index
RemoveAt_last(list, i) == SubSeq(list, 1, Len(list) - 1)

\* a removal that takes the first element whatever the index
RemoveAt_first(list, i) == Tail(list)

\* Vec::remove(i), i counted from 1
RemoveAt(list, i) == SubSeq(list, 1, i - 1) \o SubSeq(list, i + 1, Len(list))

\* mpsc::channel() for a job: the arguments the thread took with it, nothing sent, and
\* (before) the linked skills the thread of an update has collected
NewChannel(kind, arg, id) ==
    [kind |-> kind, arg |-> arg, id |-> id, state |-> "running", res |-> "none",
     plugin |-> NoPlugin, before |-> << >>]

NeverApplied == [status |-> 0, plugins |-> 0]

\* a receiving end that never has anything
Ready_never(c) == FALSE

\* rx.try_recv() is Ok
Ready(c) == chans[c].state = "sent"

AppInit ==
    /\ url = EmptyStr
    /\ form = "none"
    /\ seg = NoSeg
    /\ src = NoSource
    /\ prev = NoSource
    /\ home = TRUE
    /\ dirs = EmptyMap
    /\ ldirs = {}
    /\ links = EmptyMap
    /\ held = EmptyMap
    /\ calls = 0
    /\ last = Step("new", "main", "Ok", 0)
    /\ StatusNew
    /\ NoApp
    /\ NoScan

AppCount ==
    /\ calls < MaxSteps
    /\ calls' = calls + 1
    /\ UNCHANGED <<parseVars, scanVars, home, held, now, first_added, shown>>

\* a counted step in the plugin list, which leaves the view and the input line alone
AppFrame == AppCount /\ UNCHANGED <<view, input>>

\* a start_install that leaves the install view whatever the text
Accepted_always(u) == TRUE

\* the text of the input line makes start_install leave the install view
Accepted(u) == trim(u) # EmptyStr /\ parse(trim(u)).ok

\* App::start_install with the text u in the input: the board, the job and its thread
StartInstallOn(u) ==
    LET t == trim(u)
        source == parse(t)
        id == <<"install:">> \o t
    IN  IF t = EmptyStr
        THEN /\ status' = add(status, <<"install:error">>, <<"URL cannot be empty">>,
                              "Error", now)
             /\ last' = Step("start_install", "main", "empty", 0)
             /\ UNCHANGED <<installing, chans, applied>>
        ELSE IF ~source.ok
        THEN /\ status' = add(status, <<"install:error">>, <<"Invalid URL: ">> \o t,
                              "Error", now)
             /\ last' = Step("start_install", "main", "InvalidUrl", 0)
             /\ UNCHANGED <<installing, chans, applied>>
        ELSE IF is_installed(Fs, source)
        THEN /\ status' = add(status, id,
                              <<"Already installed: ">> \o source.owner \o Slash \o source.repo,
                              "Info", now)
             /\ last' = Step("start_install", "main", "installed", 0)
             /\ UNCHANGED <<installing, chans, applied>>
        ELSE /\ status' = add(status, id, <<"Installing ">> \o t \o <<"...">>,
                              "Progress", now)
             /\ chans' = Append(chans, NewChannel("install", t, id))
             /\ applied' = Append(applied, NeverApplied)
             /\ installing' = Append(installing, [url |-> t, rx |-> Len(chans) + 1])
             /\ last' = Step("start_install", "main", "started", Len(chans) + 1)

\* the install view is opened from the plugin list, a text of refs is typed,
\* App::start_install runs on it, and the view is left again if the text was refused:
\* the step starts and ends in the plugin list with an empty input line.  No more than
\* jobs jobs are started.
StartInstallOf(refs, jobs) ==
    /\ Len(chans) < jobs
    /\ \E u \in refs : StartInstallOn(u)
    /\ UNCHANGED <<plugins, selected_plugin, updating, dirs, ldirs, links>>

StartInstall == AppFrame /\ StartInstallOf(AppRefs, MaxJobs)

\* a thread of an install job that writes its result to the status board itself
WorkerInstall_posts ==
    /\ AppFrame
    /\ \E c \in 1..Len(chans), out \in AppOutcomes :
        /\ chans[c].kind = "install"
        /\ chans[c].state = "running"
        /\ \E r \in {manager_install(Fs, chans[c].arg, out)} :
              /\ SetFs(r.fs)
              /\ chans' = [chans EXCEPT ![c].state = "sent", ![c].res = r.res,
                                        ![c].plugin = r.plugin]
              /\ status' = add(status, chans[c].id, <<"Installed">>, "Success", now)
              /\ last' = Step("install", "worker", r.res, c)
    /\ UNCHANGED <<plugins, selected_plugin, installing, updating, applied>>

\* the thread of the install job of channel c: manager.install(url), then
\* tx.send(result)
WorkerInstallOn(c) ==
    /\ \E out \in AppOutcomes :
        /\ chans[c].kind = "install"
        /\ chans[c].state = "running"
        /\ \E r \in {manager_install(Fs, chans[c].arg, out)} :
              /\ SetFs(r.fs)
              /\ chans' = [chans EXCEPT ![c].state = "sent", ![c].res = r.res,
                                        ![c].plugin = r.plugin]
              /\ last' = Step("install", "worker", r.res, c)
    /\ UNCHANGED <<plugins, selected_plugin, installing, updating, applied, status>>

WorkerInstall == AppFrame /\ \E c \in 1..Len(chans) : WorkerInstallOn(c)

RECURSIVE ApplyInstalls(_, _)
\* the second loop of poll_installs, from the entry i down to the first: acc holds
\* installing, status, plugins and applied as the loop has them
ApplyInstalls(i, acc) ==
    IF i = 0 THEN acc
    ELSE IF ~Ready(installing[i].rx) THEN ApplyInstalls(i - 1, acc)
    ELSE LET c == installing[i].rx
             id == <<"install:">> \o installing[i].url
             ok == chans[c].res = "Ok"
             plugin == chans[c].plugin
         IN  ApplyInstalls(i - 1,
                 [installing |-> RemoveAt(acc.installing, i),
                  status |-> IF ok
                             THEN add(acc.status, id,
                                      <<"Installed: ">> \o PluginName(plugin), "Success", now)
                             ELSE add(acc.status, id,
                                      <<"Install failed (">> \o installing[i].url
                                          \o <<"): ", chans[c].res>>, "Error", now),
                  plugins |-> IF ok THEN Append(acc.plugins, plugin) ELSE acc.plugins,
                  applied |-> [acc.applied EXCEPT
                                  ![c].status = @ + 1,
                                  ![c].plugins = IF ok THEN @ + 1 ELSE @]])

\* App::poll_installs
poll_installs ==
    /\ \E r \in {ApplyInstalls(Len(installing),
                               [installing |-> installing, status |-> status,
                                plugins |-> plugins, applied |-> applied])} :
          /\ installing' = r.installing
          /\ status' = r.status
          /\ plugins' = r.plugins
          /\ applied' = r.applied
    /\ chans' = [c \in 1..Len(chans) |->
                    IF chans[c].kind = "install" /\ Ready(c)
                    THEN [chans[c] EXCEPT !.state = "received"] ELSE chans[c]]
    /\ last' = Step("poll_installs", "main", "none", 0)
    /\ UNCHANGED <<selected_plugin, updating, dirs, ldirs, links>>

PollInstalls == AppFrame /\ poll_installs

\* App::is_selected_installing
is_selected_installing == selected_plugin >= Len(plugins)

\* App::update_selected, while fewer than jobs jobs have been started
UpdateSelectedOf(jobs) ==
    /\ Len(chans) < jobs
    /\ IF plugins = << >>
       THEN /\ status' = add(status, <<"update:error">>, <<"No plugin selected">>, "Error", now)
            /\ last' = Step("update_selected", "main", "none selected", 0)
            /\ UNCHANGED <<updating, chans, applied>>
       ELSE IF is_selected_installing
       THEN /\ status' = add(status, <<"update:error">>, <<"Plugin is still installing">>,
                             "Error", now)
            /\ last' = Step("update_selected", "main", "installing", 0)
            /\ UNCHANGED <<updating, chans, applied>>
       ELSE LET plugin == plugins[selected_plugin + 1]
                name == PluginName(plugin)
                id == <<"update:">> \o name
            IN  /\ status' = add(status, id, <<"Updating ">> \o name \o <<"...">>,
                                 "Progress", now)
                /\ chans' = Append(chans, NewChannel("update", plugin, id))
                /\ applied' = Append(applied, NeverApplied)
                /\ updating' = Append(updating, [idx |-> selected_plugin, name |-> name,
                                                 rx |-> Len(chans) + 1])
                /\ last' = Step("update_selected", "main", "started", Len(chans) + 1)
    /\ UNCHANGED <<plugins, selected_plugin, installing, dirs, ldirs, links>>

UpdateSelected == AppFrame /\ UpdateSelectedOf(MaxJobs)

\* the thread of the update job of channel c: plugin.update(), then tx.send(result);
\* git ends in one of outs
WorkerUpdateWith(c, outs) ==
    /\ \E out \in outs :
        /\ chans[c].kind = "update"
        /\ chans[c].state = "running"
        /\ \E r \in {update(Fs, chans[c].arg, out)} :
              /\ SetFs(r.fs)
              /\ chans' = [chans EXCEPT ![c].state = "sent", ![c].res = r.res,
                                        ![c].plugin = r.plugin]
              /\ last' = Step("update", "worker", r.res, c)
    /\ UNCHANGED <<plugins, selected_plugin, installing, updating, applied, status>>

WorkerUpdateOn(c) == WorkerUpdateWith(c, AppOutcomes)

WorkerUpdate == AppFrame /\ \E c \in 1..Len(chans) : WorkerUpdateOn(c)

RECURSIVE ApplyUpdates(_, _)
\* the second loop of poll_updates, from the entry i down to the first
ApplyUpdates(i, acc) ==
    IF i = 0 THEN acc
    ELSE IF ~Ready(updating[i].rx) THEN ApplyUpdates(i - 1, acc)
    ELSE LET c == updating[i].rx
             idx == updating[i].idx
             name == updating[i].name
             id == <<"update:">> \o name
             ok == chans[c].res = "Ok"
             put == ok /\ idx < Len(acc.plugins)
         IN  ApplyUpdates(i - 1,
                 [updating |-> RemoveAt(acc.updating, i),
                  status |-> IF ok
                             THEN add(acc.status, id, <<"Updated: ">> \o name, "Success", now)
                             ELSE add(acc.status, id,
                                      <<"Update failed: ", chans[c].res>>, "Error", now),
                  plugins |-> IF put THEN [acc.plugins EXCEPT ![idx + 1] = chans[c].plugin]
                              ELSE acc.plugins,
                  applied |-> [acc.applied EXCEPT
                                  ![c].status = @ + 1,
                                  ![c].plugins = IF put THEN @ + 1 ELSE @]])

\* App::poll_updates
poll_updates ==
    /\ \E r \in {ApplyUpdates(Len(updating),
                              [updating |-> updating, status |-> status,
                               plugins |-> plugins, applied |-> applied])} :
          /\ updating' = r.updating
          /\ status' = r.status
          /\ plugins' = r.plugins
          /\ applied' = r.applied
    /\ chans' = [c \in 1..Len(chans) |->
                    IF chans[c].kind = "update" /\ Ready(c)
                    THEN [chans[c] EXCEPT !.state = "received"] ELSE chans[c]]
    /\ last' = Step("poll_updates", "main", "none", 0)
    /\ UNCHANGED <<selected_plugin, installing, dirs, ldirs, links>>

PollUpdates == AppFrame /\ poll_updates

\* usize::saturating_sub(1)
SaturatingPred(n) == IF n = 0 THEN 0 ELSE n - 1

Min(a, b) == IF a < b THEN a ELSE b

\* App::delete_selected
DeleteSelected ==
    /\ AppFrame
    /\ IF plugins = << >>
       THEN /\ status' = add(status, <<"delete:error">>, <<"No plugin selected">>, "Error", now)
            /\ last' = Step("delete_selected", "main", "none selected", 0)
            /\ UNCHANGED <<plugins, selected_plugin, dirs, ldirs, links>>
       ELSE IF is_selected_installing
       THEN /\ status' = add(status, <<"delete:error">>, <<"Plugin is still installing">>,
                             "Error", now)
            /\ last' = Step("delete_selected", "main", "installing", 0)
            /\ UNCHANGED <<plugins, selected_plugin, dirs, ldirs, links>>
       ELSE LET plugin == plugins[selected_plugin + 1]
                name == PluginName(plugin)
                id == <<"delete:">> \o name
            IN  \E r \in {remove(Fs, plugin)} :
                   /\ SetFs(r.fs)
                   /\ last' = Step("delete_selected", "main", r.res, 0)
                   /\ IF r.res = "Ok"
                      THEN /\ plugins' = RemoveAt(plugins, selected_plugin + 1)
                           /\ selected_plugin' = Min(selected_plugin,
                                                     SaturatingPred(Len(plugins')))
                           /\ status' = add(status, id, <<"Deleted: ">> \o name, "Success", now)
                      ELSE /\ status' = add(status, id, <<"Delete failed: ", r.res>>,
                                            "Error", now)
                           /\ UNCHANGED <<plugins, selected_plugin>>
    /\ UNCHANGED <<installing, updating, chans, applied>>

\* the orders in which read_dir can hand out the members of a set
Orderings(S) ==
    {f \in [1..Cardinality(S) -> S] : \A i, j \in 1..Cardinality(S) : f[i] = f[j] => i = j}

\* App::refresh
Refresh ==
    /\ AppFrame
    /\ \E listed \in Orderings(list_installed(Fs)) :
          /\ plugins' = listed
          /\ selected_plugin' = Min(selected_plugin, SaturatingPred(Len(listed)))
    /\ status' = add(status, <<"refresh">>, <<"Refreshed plugin list">>, "Success", now)
    /\ last' = Step("refresh", "main", "Ok", 0)
    /\ UNCHANGED <<installing, updating, chans, applied, dirs, ldirs, links>>

\* App::select_next in the plugin list
select_next ==
    /\ Len(plugins) + Len(installing) > 0
    /\ selected_plugin < Len(plugins) + Len(installing) - 1
    /\ selected_plugin' = selected_plugin + 1
    /\ last' = Step("select_next", "main", "none", 0)
    /\ UNCHANGED <<plugins, installing, updating, chans, applied, status, dirs, ldirs, links>>

SelectNext == AppFrame /\ select_next

\* App::select_prev in the plugin list
SelectPrev ==
    /\ AppFrame
    /\ selected_plugin > 0
    /\ selected_plugin' = selected_plugin - 1
    /\ last' = Step("select_prev", "main", "none", 0)
    /\ UNCHANGED <<plugins, installing, updating, chans, applied, status, dirs, ldirs, links>>

\* LinkTarget::display_name
display_name(t) == IF t = "ClaudeCode" THEN "Claude Code" ELSE "Codex"

\* App::toggle_selected_link_target with a skill of the selected plugin and a target
\* chosen
ToggleLink ==
    /\ AppFrame
    /\ selected_plugin < Len(plugins)
    /\ \E k \in 1..Len(LinkTargets), i \in 1..Len(plugins[selected_plugin + 1].skills) :
        LET skill == plugins[selected_plugin + 1].skills[i]
            t == LinkTargets[k]
            id == <<"link:", display_name(t), ":">> \o skill.name
        IN  IF is_linked_to(Fs, skill, t)
            THEN \E r \in {unlink_from(Fs, skill, t)} :
                    /\ SetFs(r.fs)
                    /\ last' = Step("unlink_from", "main", r.res, k)
                    /\ status' = IF r.res = "Ok"
                                 THEN add(status, id, <<"Unlinked ">> \o skill.name
                                              \o <<" from ", display_name(t)>>, "Success", now)
                                 ELSE add(status, id, <<"Unlink failed: ", r.res>>, "Error", now)
            ELSE \E r \in {link_to(Fs, skill, t)} :
                    /\ SetFs(r.fs)
                    /\ last' = Step("link_to", "main", r.res, k)
                    /\ status' = IF r.res = "Ok"
                                 THEN add(status, id, <<"Linked ">> \o skill.name
                                              \o <<" to ", display_name(t)>>, "Success", now)
                                 ELSE add(status, id, <<"Link failed: ", r.res>>, "Error", now)
    /\ UNCHANGED <<plugins, selected_plugin, installing, updating, chans, applied>>

\* a loop that unlinks the target k alone
UnlinkEach_one(fs, skill, k) ==
    LET r == unlink_from(fs, skill, LinkTargets[k])
    IN  [res |-> r.res, failed |-> IF r.res = "Ok" THEN 0 ELSE k, fs |-> r.fs]

RECURSIVE UnlinkEach(_, _, _)
\* the loop of link_to_all_targets that unlinks, from the target k on: it stops at the
\* first unlink_from that fails and says which
UnlinkEach(fs, skill, k) ==
    IF k > Len(LinkTargets) THEN [res |-> "Ok", failed |-> 0, fs |-> fs]
    ELSE LET r == unlink_from(fs, skill, LinkTargets[k])
         IN  IF r.res # "Ok" THEN [res |-> r.res, failed |-> k, fs |-> r.fs]
             ELSE UnlinkEach(r.fs, skill, k + 1)

\* a loop over the two targets that goes on to the second when the first has failed,
\* and reports the first failure
LinkEach_goes_on(fs, skill, k) ==
    LET Try(f, t) == IF is_linked_to(f, skill, t) THEN [res |-> "Ok", fs |-> f]
                     ELSE link_to(f, skill, t)
        a == Try(fs, LinkTargets[1])
        b == Try(a.fs, LinkTargets[2])
    IN  [res |-> IF a.res # "Ok" THEN a.res ELSE b.res,
         failed |-> IF a.res # "Ok" THEN 1 ELSE IF b.res # "Ok" THEN 2 ELSE 0,
         fs |-> b.fs]

RECURSIVE LinkEach(_, _, _)
\* the loop of link_to_all_targets that links the targets not linked, from the target k
\* on: it stops at the first link_to that fails and says which
LinkEach(fs, skill, k) ==
    IF k > Len(LinkTargets) THEN [res |-> "Ok", failed |-> 0, fs |-> fs]
    ELSE IF is_linked_to(fs, skill, LinkTargets[k]) THEN LinkEach(fs, skill, k + 1)
    ELSE LET r == link_to(fs, skill, LinkTargets[k])
         IN  IF r.res # "Ok" THEN [res |-> r.res, failed |-> k, fs |-> r.fs]
             ELSE LinkEach(r.fs, skill, k + 1)

\* link_to_all_targets on a skill as the filesystem is: what it did, how it ended and
\* the status it posts
link_to_all_targets(fs, skill) ==
    LET all_linked == \A t \in Targets : is_linked_to(fs, skill, t)
        r == IF all_linked THEN UnlinkEach(fs, skill, 1) ELSE LinkEach(fs, skill, 1)
        where == IF r.failed = 0 THEN "all" ELSE display_name(LinkTargets[r.failed])
    IN  [op |-> IF all_linked THEN "unlink_all" ELSE "link_all",
         res |-> r.res, failed |-> r.failed, fs |-> r.fs,
         kind |-> IF r.res = "Ok" THEN "Success" ELSE "Error",
         message |->
             IF r.res = "Ok"
             THEN IF all_linked THEN <<"Unlinked ">> \o skill.name \o <<" from all targets">>
                  ELSE <<"Linked ">> \o skill.name \o <<" to all targets">>
             ELSE IF all_linked THEN <<"Unlink from ", where, " failed: ", r.res>>
                  ELSE <<"Link to ", where, " failed: ", r.res>>]

\* App::link_to_all_targets with a skill of the selected plugin chosen; the step
\* records the number of the target that failed where a job's step records its channel
LinkAll ==
    /\ AppFrame
    /\ selected_plugin < Len(plugins)
    /\ \E i \in 1..Len(plugins[selected_plugin + 1].skills) :
          \E r \in {link_to_all_targets(Fs, plugins[selected_plugin + 1].skills[i])} :
             /\ SetFs(r.fs)
             /\ status' = add(status, <<"link:all:">> \o plugins[selected_plugin + 1].skills[i].name,
                              r.message, r.kind, now)
             /\ last' = Step(r.op, "main", r.res, r.failed)
    /\ UNCHANGED <<plugins, selected_plugin, installing, updating, chans, applied>>

AppNext ==
    \/ StartInstall
    \/ WorkerInstall
    \/ PollInstalls
    \/ UpdateSelected
    \/ WorkerUpdate
    \/ PollUpdates
    \/ DeleteSelected
    \/ Refresh
    \/ SelectNext
    \/ SelectPrev
    \/ ToggleLink

SpecApp == AppInit /\ [][AppNext]_vars

(***************************************************************************)
(* Properties of the App                                                   *)
(***************************************************************************)
\* a step of the App that ran the method or thread body op
AppDid(op) == calls' = calls + 1 /\ last'.op = op

\* the plugin the selection points at, when it points at one
SelectedPlugin == plugins[selected_plugin + 1]

\* the status board holds an entry of that id and kind
Posted(entries, id, kind) ==
    \E i \in 1..Len(entries) : entries[i].id = id /\ entries[i].kind = kind

\* C14: remove on a plugin whose directory does not exist returns NotInstalled and
\* changes nothing on disk, links of every target and cache directories included; and a
\* delete_selected whose remove failed leaves the plugin collection as it was and posts
\* an Error status under the delete id of the plugin.
C14_FailedDeleteChangesNothing ==
    [][(AppDid("delete_selected") /\ plugins # << >> /\ ~is_selected_installing) =>
          /\ ~DirExists(Fs, SelectedPlugin.path) => last'.res = "NotInstalled"
          /\ last'.res # "Ok" =>
                /\ last'.res = "NotInstalled"
                /\ ~DirExists(Fs, SelectedPlugin.path)
                /\ UNCHANGED <<dirs, ldirs, links>>
                /\ UNCHANGED <<plugins, selected_plugin>>
                /\ Posted(status', <<"delete:">> \o PluginName(SelectedPlugin), "Error")]_vars

\* a delete of a listed plugin whose directory was gone has just failed
C14_Witness ==
    /\ last.op = "delete_selected"
    /\ last.res = "NotInstalled"
    /\ plugins # << >>
    /\ Posted(status, <<"delete:">> \o PluginName(plugins[selected_plugin + 1]), "Error")

\* the channels of that kind whose result a poll starting now would take
ReadyOf(kind) == {c \in 1..Len(chans) : chans[c].kind = kind /\ Ready(c)}

\* the channels the entries of installing and updating hold the receiving end of
Receivers ==
    [c \in 1..Len(chans) |->
        Cardinality({i \in 1..Len(installing) : installing[i].rx = c})
      + Cardinality({i \in 1..Len(updating) : updating[i].rx = c})]

\* the positions at which the plugin collection differs over the step
ChangedPlaces ==
    {i \in (DOMAIN plugins) \cup (DOMAIN plugins') :
        i > Len(plugins) \/ i > Len(plugins') \/ plugins[i] # plugins'[i]}

\* a poll of the jobs of that kind applied the results that were ready, each once
PollApplies(kind) ==
    LET ready == ReadyOf(kind)
        good == {c \in ready : chans[c].res = "Ok"}
    IN  /\ \A c \in 1..Len(chans) :
              /\ chans'[c].state = IF c \in ready THEN "received" ELSE chans[c].state
              /\ applied'[c].status = applied[c].status + (IF c \in ready THEN 1 ELSE 0)
              /\ applied'[c].plugins <= applied[c].plugins + (IF c \in good THEN 1 ELSE 0)
        /\ \A c \in ready :
              \E i \in 1..Len(status') :
                  /\ status'[i].id = chans[c].id
                  /\ status'[i].kind \in {"Success", "Error"}
                  /\ \E d \in ready :
                        /\ chans[d].id = chans[c].id
                        /\ status'[i].kind = IF d \in good THEN "Success" ELSE "Error"
        /\ Cardinality(ChangedPlaces) <= Cardinality(good)
        /\ kind = "install" => Len(plugins') = Len(plugins) + Cardinality(good)
        /\ ready = {} => UNCHANGED <<plugins, status>>

\* C18: a job delivers one result and the main loop applies it once. Over every
\* interleaving of starts, thread completions and polls: a channel goes from running
\* to sent to received and never back, what was sent is never sent again or altered, a
\* poll applies exactly the results that are ready (one Success or Error status each, at
\* most one change of the plugin collection each), a result once received is never
\* applied by a later poll, and a result not yet received has exactly one entry of
\* installing or updating waiting for it.
C18_EachResultAppliedOnce ==
    [][/\ Len(chans') >= Len(chans)
       /\ Len(applied') = Len(chans')
       /\ \A c \in 1..Len(chans) :
             /\ chans'[c].kind = chans[c].kind /\ chans'[c].id = chans[c].id
             /\ chans[c].state = "running" =>
                   chans'[c].state \in {"running", "sent"} /\ applied'[c] = NeverApplied
             /\ chans[c].state = "sent" =>
                   /\ chans'[c].state \in {"sent", "received"}
                   /\ chans'[c].res = chans[c].res
                   /\ chans'[c].plugin = chans[c].plugin
             /\ chans[c].state = "received" =>
                   /\ chans'[c] = chans[c]
                   /\ applied'[c] = applied[c]
                   /\ applied[c].status = 1
                   /\ applied[c].plugins <= 1
             /\ (chans[c].state # chans'[c].state /\ chans'[c].state = "sent") =>
                   last'.by = "worker" /\ last'.ch = c
             /\ (chans[c].state # chans'[c].state /\ chans'[c].state = "received") =>
                   last'.op = IF chans[c].kind = "install" THEN "poll_installs"
                              ELSE "poll_updates"
       /\ AppDid("poll_installs") => PollApplies("install")
       /\ AppDid("poll_updates") => PollApplies("update")
       /\ \A c \in 1..Len(chans') :
             Receivers'[c] = IF chans'[c].state = "received" THEN 0 ELSE 1]_vars

\* an install and an update of the plugin it installed have both been applied, the
\* update by the poll that has just run
C18_Witness ==
    /\ last.op = "poll_updates"
    /\ \E c, d \in 1..Len(chans) :
          /\ chans[c].kind = "install" /\ chans[c].state = "received"
          /\ applied[c] = [status |-> 1, plugins |-> 1]
          /\ chans[d].kind = "update" /\ chans[d].state = "received"
          /\ applied[d] = [status |-> 1, plugins |-> 1]
          /\ Len(plugins) = 1
          /\ \E i \in 1..Len(status) : status[i].id = chans[d].id /\ status[i].kind = "Success"

\* the methods of the App that run on the main thread and write plugins or status
MainWriters ==
    {"start_install", "poll_installs", "update_selected", "poll_updates",
     "delete_selected", "refresh", "link_to", "unlink_from", "link_all", "unlink_all"}

\* C19: the threads never write the plugin collection or the status board. In every
\* interleaving a step of a thread leaves plugins, status, the selection and the lists
\* of running jobs as they were and changes only the filesystem and its own channel,
\* on which it sends once; plugins and status change only in steps of the main loop
\* (start, poll, delete, refresh, link and unlink).
C19_WorkersLeaveAppAlone ==
    [][/\ (calls' = calls + 1 /\ last'.by = "worker") =>
             /\ UNCHANGED <<plugins, status, selected_plugin, installing, updating, applied>>
             /\ Len(chans') = Len(chans)
             /\ last'.ch \in 1..Len(chans)
             /\ \A c \in 1..Len(chans) : c # last'.ch => chans'[c] = chans[c]
             /\ chans[last'.ch].state = "running"
             /\ chans'[last'.ch].state = "sent"
       /\ (plugins' # plugins \/ status' # status) =>
             /\ last'.by = "main"
             /\ last'.op \in MainWriters
             /\ UNCHANGED <<chans>> \/ last'.op \in {"start_install", "update_selected",
                                                     "poll_installs", "poll_updates"}]_vars

\* a thread has just finished an install that wrote the repository to disk, while the
\* plugin collection is still empty and the status board still shows the job in progress
C19_Witness ==
    /\ last.by = "worker"
    /\ last.op = "install"
    /\ last.res = "Ok"
    /\ dirs # EmptyMap
    /\ plugins = << >>
    /\ chans[last.ch].state = "sent"
    /\ \E i \in 1..Len(status) :
          status[i].id = chans[last.ch].id /\ status[i].kind = "Progress"

(***************************************************************************)
(* StatusManager: what is shown                                            *)
(***************************************************************************)
\* the key of sort_by_key in get_display
KindKey(kind) ==
    CASE kind = "Progress" -> 0
      [] kind = "Error" -> 1
      [] kind = "Success" -> 2
      [] OTHER -> 3

\* an entry put into a list sorted by key, behind the entries whose key is not larger
InsertByKey(sorted, e) ==
    LET n == Cardinality({i \in 1..Len(sorted) : KindKey(sorted[i].kind) <= KindKey(e.kind)})
    IN  SubSeq(sorted, 1, n) \o <<e>> \o SubSeq(sorted, n + 1, Len(sorted))

RECURSIVE sort_by_key(_)
\* slice::sort_by_key, a stable sort
sort_by_key(entries) ==
    IF entries = << >> THEN << >>
    ELSE InsertByKey(sort_by_key(SubSeq(entries, 1, Len(entries) - 1)), entries[Len(entries)])

Separator == " | "

RECURSIVE Join(_)
\* [&str]::join(" | "): the pieces with the separator between them
Join(pieces) ==
    IF pieces = << >> THEN << >>
    ELSE IF Len(pieces) = 1 THEN pieces
    ELSE <<pieces[1], Separator>> \o Join(Tail(pieces))

Messages(entries) == [i \in 1..Len(entries) |-> entries[i].message]

\* get_display without the sort
get_display_unsorted(entries) ==
    IF entries = << >> THEN <<"Ready">> ELSE Join(Messages(entries))

\* StatusManager::get_display
get_display(entries) ==
    IF entries = << >> THEN <<"Ready">> ELSE Join(Messages(sort_by_key(entries)))

has_error(entries) == \E i \in 1..Len(entries) : entries[i].kind = "Error"

has_progress(entries) == \E i \in 1..Len(entries) : entries[i].kind = "Progress"

\* display_kind that looks at the first entry only
display_kind_of_first(entries) ==
    IF entries = << >> THEN "Success" ELSE entries[1].kind

\* StatusManager::display_kind
display_kind(entries) ==
    IF has_progress(entries) THEN "Progress"
    ELSE IF has_error(entries) THEN "Error"
    ELSE IF \E i \in 1..Len(entries) : entries[i].kind = "Success" THEN "Success"
    ELSE IF entries = << >> THEN "Success"
    ELSE "Info"

\* four operations reporting at once, named in the order in which they first report
\* (the ids are interchangeable, so one order of first adds stands for all)
DisplayOrder == <<"x", "y", "z", "w">>

DisplayIds == {DisplayOrder[i] : i \in 1..Len(DisplayOrder)}

\* the ids that have reported, and the one that reports next for the first time
Addable == {DisplayOrder[i] : i \in 1..Min(Len(first_added) + 1, Len(DisplayOrder))}

\* the screen is drawn: get_display and display_kind on the entries as they are
GetDisplay ==
    /\ shown' = [text |-> get_display(status), kind |-> display_kind(status)]
    /\ last' = StatusCall("get_display", "", "", "")
    /\ UNCHANGED <<status, now, first_added>>
    /\ StatusFrame

\* each operation reports in words of its own
DisplayMessage == [id \in DisplayIds |-> {"about " \o id}]

DisplayNext == StatusAddOf(Addable, DisplayMessage) \/ StatusRemoveOf(DisplayIds) \/ GetDisplay

SpecDisplay == StatusInit /\ [][DisplayNext]_vars

\* the entries of one kind, in the order of the list
ByKind(entries, kind) == SelectSeq(entries, LAMBDA e : e.kind = kind)

\* the entries by priority of kind, those of one kind in the order of the list
InListOrder(entries) ==
    ByKind(entries, "Progress") \o ByKind(entries, "Error")
        \o ByKind(entries, "Success") \o ByKind(entries, "Info")

\* the entries of one kind, in the order in which their ids were first added
ByKindFirstAdded(entries, kind) ==
    LET ids == SelectSeq(first_added,
                         LAMBDA id : \E i \in 1..Len(entries) :
                                        entries[i].id = id /\ entries[i].kind = kind)
    IN  [j \in 1..Len(ids) |-> entries[FindEntry(entries, ids[j])]]

InFirstAddedOrder(entries) ==
    ByKindFirstAdded(entries, "Progress") \o ByKindFirstAdded(entries, "Error")
        \o ByKindFirstAdded(entries, "Success") \o ByKindFirstAdded(entries, "Info")

\* the screen has just been drawn from the entries as they are
Drawn == last.op = "get_display" /\ shown # NotShown

\* C21 as stated: get_display on a non-empty StatusManager is every entry's message
\* once, joined by ' | ', by priority of kind Progress, Error, Success, Info, the
\* entries of one kind in the order in which their ids were first added; on an empty
\* one it is 'Ready'.
C21_DisplayInFirstAddedOrder ==
    Drawn => shown.text = IF status = << >> THEN <<"Ready">>
                          ELSE Join(Messages(InFirstAddedOrder(status)))

\* C21 amended: get_display on a non-empty StatusManager is every entry's message
\* once, joined by ' | ', by priority of kind Progress, Error, Success, Info, the
\* entries of one kind in the order of the entry list, which is the order in which
\* their ids were added since they were last absent; on an empty one it is 'Ready'.
C21_DisplayInListOrder ==
    Drawn => /\ shown.text = IF status = << >> THEN <<"Ready">>
                             ELSE Join(Messages(InListOrder(status)))
             /\ status # << >> =>
                   /\ Len(shown.text) = 2 * Len(status) - 1
                   /\ \A i \in 1..Len(status) :
                         Cardinality({j \in 1..Len(shown.text) :
                                        shown.text[j] = status[i].message}) = 1

\* four entries are drawn, the first of the list an Info entry, two of them Progress
\* entries of which the one added first was removed and added again behind the other
C21_Witness ==
    /\ Drawn
    /\ Len(status) = 4
    /\ status[1].kind = "Info"
    /\ \E i, j \in 1..4 :
          /\ i < j
          /\ status[i].kind = "Progress" /\ status[j].kind = "Progress"
          /\ status[i].id = "y" /\ status[j].id = "x"
    /\ has_error(status)

\* C22: display_kind is the kind of highest priority among the entries (Progress over
\* Error over Success over Info), which is the kind of the first entry in the order of
\* get_display, and Success when there is no entry.
C22_DisplayKindIsHighest ==
    Drawn => IF status = << >> THEN shown.kind = "Success"
             ELSE /\ \E i \in 1..Len(status) : status[i].kind = shown.kind
                  /\ \A i \in 1..Len(status) : KindKey(shown.kind) <= KindKey(status[i].kind)
                  /\ shown.kind = InListOrder(status)[1].kind
                  /\ shown.text[1] = InListOrder(status)[1].message

\* the screen is drawn with an Error entry behind entries of lower priority and no
\* Progress entry
C22_Witness ==
    /\ Drawn
    /\ Len(status) = 3
    /\ status[1].kind = "Info"
    /\ status[2].kind = "Success"
    /\ status[3].kind = "Error"
    /\ shown.kind = "Error"

(***************************************************************************)
(* StatusManager: what goes and what stays                                 *)
(***************************************************************************)
\* the entry is old enough to go: not in progress, and shown for the display duration
Expired(e) == e.kind # "Progress" /\ now - e.created_at >= STATUS_DISPLAY_DURATION

\* where the entries of the list are found in the list after the step: every kept
\* entry as it was, in the order it was in
KeptInOrder(kept) ==
    /\ Len(status') = Cardinality(kept)
    /\ \A i \in kept : \E j \in 1..Len(status') : status'[j] = status[i]
    /\ \A i, k \in kept :
          i < k => FindEntry(status', status[i].id) < FindEntry(status', status[k].id)

\* C23: with the clock counting seconds, clear_expired removes exactly the entries
\* that are not Progress and whose last add lies at least the display duration (3 s)
\* back; every Progress entry and every younger entry stays with its message, kind and
\* time, in the order they were in; an add restarts the age of its id.
C23_ClearExpiredByAge ==
    [][/\ last'.op = "clear_expired" =>
             /\ KeptInOrder({i \in 1..Len(status) : ~Expired(status[i])})
             /\ \A i \in 1..Len(status) :
                   Expired(status[i]) => FindEntry(status', status[i].id) = 0
             /\ now' = now
       /\ last'.op = "add" =>
             /\ FindEntry(status', last'.id) # 0
             /\ status'[FindEntry(status', last'.id)].created_at = now
             /\ clear_expired(status', now)[FindEntry(clear_expired(status', now), last'.id)].id
                    = last'.id
       /\ last'.op = "tick" => status' = status]_vars

\* clear_expired has run at second three and kept a Progress entry three seconds old
\* and a Success entry added a second ago
C23_Witness ==
    /\ last.op = "clear_expired"
    /\ now = STATUS_DISPLAY_DURATION
    /\ Len(status) = 2
    /\ status[1].kind = "Progress" /\ status[1].created_at = 0
    /\ status[2].kind = "Success" /\ status[2].created_at = now - 1

\* C24: an entry of kind Progress stays through clear_expired, clear_completed, the
\* passage of time and every add or remove on another id; it stops being a Progress
\* entry only by an add on its own id with kind Success or Error, or by remove on its
\* own id.
C24_ProgressUntilTerminal ==
    [][\A i \in 1..Len(status) :
          status[i].kind = "Progress" =>
             \A j \in {FindEntry(status', status[i].id)} :
                /\ j = 0 => last'.op = "remove"
                /\ j # 0 => \/ status'[j] = status[i]
                            \/ /\ last'.op \in {"add", "start_install", "update_selected",
                                                "poll_installs", "poll_updates"}
                               /\ status'[j].kind \in {"Progress", "Success", "Error"}]_vars

(***************************************************************************)
(* scan_for_skills on a directory tree                                     *)
(*                                                                         *)
(* The tree is a map from the paths of its entries to what they are: a     *)
(* directory, a regular file, or something that is neither (a socket, a    *)
(* dangling symlink).  A name is a String, or bytes that are no UTF-8      *)
(* (OsStr::to_str is None).  read_dir hands the entries out in any order,  *)
(* so the result is kept as a bag of (name, marker path) pairs.            *)
(***************************************************************************)
\* entries in one tree
MaxNodes == 4

\* levels below the scan root
MaxScanDepth == 3

DotSvn == <<".", "s", "v", "n">>

DotHg == <<".", "h", "g">>

\* a hidden directory that belongs to no version control system
DotX == <<".", "x">>

ScanNames == {<<"f">>, DotGit, DotSvn, DotHg, DotX, SkillMd, NotUtf8}

NodeKinds == {"dir", "file", "other"}

\* the scan roots: a repository directory, and a path without a last component
ScanRoots == {<<RepoR>>, << >>}

\* the test of scan_directory on a directory: its name is a String and is none of
\* .git, .svn, .hg
Descends(name) == to_str(name) /\ name # DotGit /\ name # DotSvn /\ name # DotHg

\* the test of scan_directory on a file: its name is SKILL.md
IsMarker(name) == to_str(name) /\ name = SkillMd

\* read_dir(current): the entries directly in current
Entries(tree, current) ==
    {p \in DOMAIN tree : Len(p) = Len(current) + 1 /\ IsPrefix(current, p)}

RECURSIVE scan_directory(_, _, _, _)
\* scan_directory(root, current, skills) over the entries of current not yet visited
scan_directory(tree, root, current, todo) ==
    IF todo = {} THEN EmptyBag
    ELSE LET path == CHOOSE p \in todo : TRUE
             name == path[Len(path)]
             here ==
                 IF tree[path] = "dir"
                 THEN IF Descends(name)
                      THEN scan_directory(tree, root, path, Entries(tree, path))
                      ELSE EmptyBag
                 ELSE IF tree[path] = "file" /\ IsMarker(name)
                 THEN SetToBag({<<derive_skill_name(root, path), path>>})
                 ELSE EmptyBag
         IN  here (+) scan_directory(tree, root, current, todo \ {path})

\* scan_for_skills(root)
scan_tree(tree, root) == scan_directory(tree, root, root, Entries(tree, root))

NotScanned == [res |-> "none", skills |-> EmptyBag]

\* the directory the scan starts in
ScanRoot == CHOOSE p \in DOMAIN nodes : \A q \in DOMAIN nodes : Len(p) <= Len(q)

\* an empty directory is there to be scanned
ScanInit ==
    /\ url = EmptyStr
    /\ form = "none"
    /\ seg = NoSeg
    /\ src = NoSource
    /\ prev = NoSource
    /\ home = TRUE
    /\ dirs = EmptyMap
    /\ ldirs = {}
    /\ links = EmptyMap
    /\ held = EmptyMap
    /\ last = [op |-> "none"]
    /\ calls = 0
    /\ StatusNew
    /\ NoApp
    /\ \E root \in ScanRoots : nodes = [p \in {root} |-> "dir"]
    /\ scanned = NotScanned

ScanFrame == UNCHANGED <<parseVars, statusVars, appVars, home, dirs, ldirs, links, held, calls>>

\* an entry appears in a directory of the tree
PutEntry ==
    /\ Cardinality(DOMAIN nodes) <= MaxNodes
    /\ \E parent \in DOMAIN nodes, name \in ScanNames, kind \in NodeKinds :
          /\ nodes[parent] = "dir"
          /\ Len(parent) < Len(ScanRoot) + MaxScanDepth
          /\ parent \o <<name>> \notin DOMAIN nodes
          /\ nodes' = With(nodes, parent \o <<name>>, kind)
    /\ scanned' = NotScanned
    /\ last' = [op |-> "put"]
    /\ ScanFrame

\* scan_for_skills(root) is called
Scan ==
    /\ scanned' = [res |-> "Ok", skills |-> scan_tree(nodes, ScanRoot)]
    /\ last' = [op |-> "scan_for_skills"]
    /\ UNCHANGED nodes
    /\ ScanFrame

ScanNext == PutEntry \/ Scan

SpecScan == ScanInit /\ [][ScanNext]_vars

\* the files named SKILL.md below the root that are in no directory named .git, .svn
\* or .hg
Markers(tree, root) ==
    {p \in DOMAIN tree :
        /\ tree[p] = "file"
        /\ p[Len(p)] = SkillMd
        /\ \A i \in (Len(root) + 1)..(Len(p) - 1) : p[i] \notin VcsDirs}

\* the name the marker p is to be given: that of the root for a marker in the root
\* (unknown when the root path has no last component), that of its directory otherwise
NameFor(root, p) ==
    IF Parent(p) # root THEN p[Len(p) - 1]
    ELSE IF root = << >> THEN Unknown ELSE root[Len(root)]

\* C25: for every tree, scan_for_skills returns exactly one (name, marker path) pair
\* for each file named SKILL.md that is in no directory named .git, .svn or .hg, two
\* of one name included; the name is the root's directory name when the marker lies in
\* the root and the name of the marker's directory otherwise; markers below other
\* hidden directories are returned; an empty directory gives nothing.
C25_ScanFindsEveryMarker ==
    scanned.res = "Ok" =>
        scanned.skills = SetToBag({<<NameFor(ScanRoot, p), p>> : p \in Markers(nodes, ScanRoot)})

(***************************************************************************)
(* link_to_all_targets on a disk that others write too.  The App has one   *)
(* plugin, o/r with the skill f, installed and polled; the link area and   *)
(* the working tree are also written by others: a file or a directory put  *)
(* where a link would go, and a pull by another process that drops the     *)
(* skill's directory.                                                      *)
(***************************************************************************)
EmptyFs == [dirs |-> EmptyMap, ldirs |-> {}, links |-> EmptyMap]

\* manager.install("o/r") fetching a repository with the skill f
InstalledOnce ==
    manager_install(EmptyFs, OwnerO \o Slash \o RepoR,
                    [ok |-> TRUE, tree |-> << [rel |-> << <<"f">> >>, marker |-> TRUE] >>])

LinkInit ==
    /\ url = EmptyStr
    /\ form = "none"
    /\ seg = NoSeg
    /\ src = NoSource
    /\ prev = NoSource
    /\ home = TRUE
    /\ dirs = InstalledOnce.fs.dirs
    /\ ldirs = InstalledOnce.fs.ldirs
    /\ links = InstalledOnce.fs.links
    /\ held = EmptyMap
    /\ calls = 0
    /\ last = Step("new", "main", "Ok", 0)
    /\ StatusNew
    /\ plugins = <<InstalledOnce.plugin>>
    /\ selected_plugin = 0
    /\ installing = << >>
    /\ updating = << >>
    /\ chans = << >>
    /\ applied = << >>
    /\ view = "PluginList"
    /\ input = << >>
    /\ NoScan

\* something other than the program puts a regular file or a directory where a link of
\* the skill would go
PlaceEntry ==
    /\ AppFrame
    /\ \E t \in Targets, kind \in {"file", "dir"} :
        LET lp == link_path_for(plugins[1].skills[1], t)
        IN  /\ lp.some
            /\ ~symlink_exists(Fs, lp.path)
            /\ IF kind = "file"
               THEN /\ ldirs' = ldirs \cup Ancestors(Parent(lp.path))
                    /\ links' = With(links, lp.path, [kind |-> "file", to |-> NoPath])
               ELSE /\ ldirs' = ldirs \cup Ancestors(lp.path)
                    /\ links' = links
            /\ last' = Step("place_" \o kind, "other", "Ok", 0)
    /\ UNCHANGED <<plugins, selected_plugin, installing, updating, chans, applied, status, dirs>>

\* a pull by another process leaves the working tree without the skill's directory
LoseSkillDir ==
    /\ AppFrame
    /\ dirs[plugins[1].path].tree # << >>
    /\ dirs' = [dirs EXCEPT ![plugins[1].path].tree = << >>]
    /\ last' = Step("lose_dir", "other", "Ok", 0)
    /\ UNCHANGED <<plugins, selected_plugin, installing, updating, chans, applied, status,
                   ldirs, links>>

LinkNext == LinkAll \/ ToggleLink \/ PlaceEntry \/ LoseSkillDir

SpecLink == LinkInit /\ [][LinkNext]_vars

(***************************************************************************)
(* Properties of link_to_all_targets                                       *)
(***************************************************************************)
AllLinked(fs, skill) == \A t \in Targets : is_linked_to(fs, skill, t)

\* what is at a path of the link area
OccupantOf(fs, p) ==
    IF p \in DOMAIN fs.links THEN fs.links[p]
    ELSE IF p \in fs.ldirs THEN [kind |-> "dir", to |-> NoPath]
    ELSE [kind |-> "none", to |-> NoPath]

LinkEntry(fs, skill, t) == OccupantOf(fs, link_path_for(skill, t).path)

LinkAllId(skill) == <<"link:all:">> \o skill.name

\* the step wrote the one entry of the board with this id, and no other entry
OnePosted(id) ==
    /\ Cardinality({i \in 1..Len(status') : status'[i].id = id}) = 1
    /\ Len(status') = Len(status) + (IF FindEntry(status, id) = 0 THEN 1 ELSE 0)
    /\ \A j \in 1..Len(status) : status[j].id # id => status'[j] = status[j]
    /\ status'[FindEntry(status', id)].kind \in {"Success", "Error"}

DidLinkAll == AppDid("link_all") \/ AppDid("unlink_all")

\* the skill's directory is there
SkillDirExists(fs, skill) == DirExists(fs, Parent(skill.path))

\* C26 as stated: link_to_all_targets on the selected skill: when every target was
\* linked, a successful run leaves no entry at the skill's link path of any target;
\* otherwise a successful run leaves every target linked and the targets that were
\* linked untouched; one status entry link:all:<skill> is posted.
C26_LinkAllToggles ==
    [][DidLinkAll =>
        \E i \in 1..Len(SelectedPlugin.skills) :
            LET skill == SelectedPlugin.skills[i]
            IN  /\ OnePosted(LinkAllId(skill))
                /\ (last'.res = "Ok" /\ AllLinked(Fs, skill)) =>
                       \A t \in Targets : LinkEntry(FsAfter, skill, t).kind = "none"
                /\ (last'.res = "Ok" /\ ~AllLinked(Fs, skill)) =>
                       /\ AllLinked(FsAfter, skill)
                       /\ \A t \in Targets :
                             is_linked_to(Fs, skill, t) =>
                                 LinkEntry(FsAfter, skill, t) = LinkEntry(Fs, skill, t)]_vars

\* C26, amended: as above, but a successful linking run leaves at every target that was
\* not linked a symlink to the skill's directory, and every target is linked afterwards
\* exactly when that directory exists.
C26_LinkAllTogglesIfDirExists ==
    [][DidLinkAll =>
        \E i \in 1..Len(SelectedPlugin.skills) :
            LET skill == SelectedPlugin.skills[i]
            IN  /\ OnePosted(LinkAllId(skill))
                /\ (last'.res = "Ok" /\ AllLinked(Fs, skill)) =>
                       \A t \in Targets : LinkEntry(FsAfter, skill, t).kind = "none"
                /\ (last'.res = "Ok" /\ ~AllLinked(Fs, skill)) =>
                       /\ \A t \in Targets :
                             IF is_linked_to(Fs, skill, t)
                             THEN LinkEntry(FsAfter, skill, t) = LinkEntry(Fs, skill, t)
                             ELSE LinkEntry(FsAfter, skill, t) =
                                      [kind |-> "symlink", to |-> Parent(skill.path)]
                       /\ AllLinked(FsAfter, skill) <=> SkillDirExists(FsAfter, skill)]_vars

\* a run that found Codex linked and linked Claude Code: both are linked afterwards
C26_Witness ==
    /\ last.op = "link_all"
    /\ last.res = "Ok"
    /\ plugins # << >>
    /\ plugins[1].skills # << >>
    /\ AllLinked(Fs, plugins[1].skills[1])
    /\ Posted(status, LinkAllId(plugins[1].skills[1]), "Success")
    /\ Posted(status, <<"link:", "Codex", ":">> \o plugins[1].skills[1].name, "Success")
    /\ ~Posted(status, <<"link:", "Claude Code", ":">> \o plugins[1].skills[1].name, "Success")

\* C27: when a link or unlink step of link_to_all_targets fails on the target k, the
\* targets after k are as they were, what was done to the targets before k stays done,
\* and an Error entry that names the target k is posted, not the Success entry.
C27_FailureStopsTheRun ==
    [][(DidLinkAll /\ last'.res # "Ok") =>
        \E i \in 1..Len(SelectedPlugin.skills) :
            LET skill == SelectedPlugin.skills[i]
                k == last'.ch
                e == status'[FindEntry(status', LinkAllId(skill))]
            IN  /\ k \in 1..Len(LinkTargets)
                /\ \A j \in (k + 1)..Len(LinkTargets) :
                       LinkEntry(FsAfter, skill, LinkTargets[j]) = LinkEntry(Fs, skill, LinkTargets[j])
                /\ \A j \in 1..(k - 1) :
                       IF AllLinked(Fs, skill)
                       THEN LinkEntry(FsAfter, skill, LinkTargets[j]).kind = "none"
                       ELSE IF is_linked_to(Fs, skill, LinkTargets[j])
                       THEN LinkEntry(FsAfter, skill, LinkTargets[j])
                                = LinkEntry(Fs, skill, LinkTargets[j])
                       ELSE LinkEntry(FsAfter, skill, LinkTargets[j])
                                = [kind |-> "symlink", to |-> Parent(skill.path)]
                /\ LinkEntry(FsAfter, skill, LinkTargets[k]) = LinkEntry(Fs, skill, LinkTargets[k])
                /\ OnePosted(LinkAllId(skill))
                /\ e.kind = "Error"
                /\ e.message[2] = display_name(LinkTargets[k])
                /\ e.message[1] = IF AllLinked(Fs, skill) THEN "Unlink from " ELSE "Link to "]_vars

\* an unlinking run that took the link of Claude Code away and failed on Codex, where
\* a directory is
C27_Witness ==
    /\ last.op = "unlink_all"
    /\ last.res = "Io"
    /\ last.ch = 2
    /\ plugins # << >>
    /\ plugins[1].skills # << >>
    /\ LinkEntry(Fs, plugins[1].skills[1], "ClaudeCode").kind = "none"
    /\ LinkEntry(Fs, plugins[1].skills[1], "Codex").kind = "dir"
    /\ Posted(status, LinkAllId(plugins[1].skills[1]), "Error")

(***************************************************************************)
(* Without a home directory                                                *)
(***************************************************************************)
\* C28: when the home directory cannot be resolved, link_to and unlink_from return the
\* link failure "cannot determine home directory" (the only LinkFailed of the model)
\* and leave the filesystem as it was.
C28_NoHomeIsLinkFailed ==
    [][(~home /\ (Did("link_to") \/ Did("unlink_from"))) =>
          (last'.res = "LinkFailed" /\ FsAfter = Fs)]_vars

(***************************************************************************)
(* Polls of several pending jobs.  The App starts on a disk that holds the *)
(* plugins o/r and o/q; installs are asked of o/p and o/s.                 *)
(***************************************************************************)
\* jobs started in one behaviour of the polls
MaxPending == 3

RepoP == <<"p">>

RepoS == <<"s">>

JobRefs == {OwnerO \o Slash \o RepoP, OwnerO \o Slash \o RepoS}

\* manager.install("o/q") on the disk that holds o/r
InstalledTwice ==
    manager_install(InstalledOnce.fs, OwnerO \o Slash \o RepoQ,
                    [ok |-> TRUE, tree |-> << [rel |-> << <<"f">> >>, marker |-> TRUE] >>])

JobsInit ==
    /\ url = EmptyStr
    /\ form = "none"
    /\ seg = NoSeg
    /\ src = NoSource
    /\ prev = NoSource
    /\ home = TRUE
    /\ dirs = InstalledTwice.fs.dirs
    /\ ldirs = InstalledTwice.fs.ldirs
    /\ links = InstalledTwice.fs.links
    /\ held = EmptyMap
    /\ calls = 0
    /\ last = Step("new", "main", "Ok", 0)
    /\ StatusNew
    /\ plugins = <<InstalledOnce.plugin, InstalledTwice.plugin>>
    /\ selected_plugin = 0
    /\ installing = << >>
    /\ updating = << >>
    /\ chans = << >>
    /\ applied = << >>
    /\ view = "PluginList"
    /\ input = << >>
    /\ NoScan

JobInstall == AppFrame /\ StartInstallOf(JobRefs, MaxPending)

JobUpdate == AppFrame /\ UpdateSelectedOf(MaxPending)

JobsNext ==
    \/ JobInstall
    \/ WorkerInstall
    \/ PollInstalls
    \/ JobUpdate
    \/ WorkerUpdate
    \/ PollUpdates
    \/ SelectNext

SpecJobs == JobsInit /\ [][JobsNext]_vars

\* the entries of a pending list whose thread has not sent its result
StillPending(list) == SelectSeq(list, LAMBDA e : chans[e.rx].state # "sent")

\* the entries of a pending list whose result the poll takes
Taken(list) == {i \in 1..Len(list) : chans[list[i].rx].state = "sent"}

\* the board after the poll shows, under the id of a taken job, the result of a taken
\* job of that id: the one that stood first in the list, which the poll posts last
InstallShown(i) ==
    LET id == <<"install:">> \o installing[i].url
        first == CHOOSE j \in Taken(installing) :
                    /\ installing[j].url = installing[i].url
                    /\ \A k \in Taken(installing) :
                          installing[k].url = installing[i].url => j <= k
        c == chans[installing[first].rx]
        e == status'[FindEntry(status', id)]
    IN  /\ FindEntry(status', id) # 0
        /\ IF c.res = "Ok"
           THEN /\ e.kind = "Success"
                /\ e.message = <<"Installed: ">> \o PluginName(c.plugin)
                /\ PluginName(c.plugin) = installing[i].url
           ELSE /\ e.kind = "Error"
                /\ e.message = <<"Install failed (">> \o installing[i].url \o <<"): ", c.res>>

UpdateShown(i) ==
    LET id == <<"update:">> \o updating[i].name
        first == CHOOSE j \in Taken(updating) :
                    /\ updating[j].name = updating[i].name
                    /\ \A k \in Taken(updating) :
                          updating[k].name = updating[i].name => j <= k
        c == chans[updating[first].rx]
        e == status'[FindEntry(status', id)]
    IN  /\ FindEntry(status', id) # 0
        /\ PluginName(c.arg) = updating[i].name
        /\ IF c.res = "Ok"
           THEN e.kind = "Success" /\ e.message = <<"Updated: ">> \o updating[i].name
           ELSE e.kind = "Error" /\ e.message = <<"Update failed: ", c.res>>

\* C29: after poll_installs (poll_updates) the pending list holds exactly the jobs that
\* had not completed, in their order; every completed job is gone, and its result is
\* on the status board under its own url (name).
C29_PollKeepsThePending ==
    [][/\ AppDid("poll_installs") =>
             /\ installing' = StillPending(installing)
             /\ updating' = updating
             /\ \A i \in Taken(installing) : InstallShown(i)
             /\ \A j \in 1..Len(status) :
                   (\A i \in Taken(installing) : status[j].id # <<"install:">> \o installing[i].url)
                       => status'[j] = status[j]
       /\ AppDid("poll_updates") =>
             /\ updating' = StillPending(updating)
             /\ installing' = installing
             /\ \A i \in Taken(updating) : UpdateShown(i)
             /\ \A j \in 1..Len(status) :
                   (\A i \in Taken(updating) : status[j].id # <<"update:">> \o updating[i].name)
                       => status'[j] = status[j]]_vars

\* a poll has taken the second of two update jobs of different plugins and left the
\* first, whose thread is still running
C29_Witness ==
    /\ last.op = "poll_updates"
    /\ Len(updating) = 1
    /\ updating[1].rx = 1
    /\ chans[1].state = "running"
    /\ Len(chans) >= 2
    /\ chans[2].kind = "update"
    /\ chans[2].state = "received"
    /\ chans[2].id # chans[1].id
    /\ Posted(status, chans[1].id, "Progress")
    /\ Posted(status, chans[2].id, "Success")

(***************************************************************************)
(* Jobs run to completion.  The steps are not counted here: MaxJobs jobs   *)
(* are started at most, a thread that has started goes on to send its      *)
(* result, and the main loop goes on polling.                              *)
(***************************************************************************)
LiveFrame == UNCHANGED <<calls, parseVars, scanVars, home, held, now, first_added, shown, view, input>>

\* the thread of the job of channel c
Thread(c) ==
    /\ LiveFrame
    /\ c <= Len(chans)
    /\ (WorkerInstallOn(c) \/ WorkerUpdateOn(c))

Threads == \E c \in 1..MaxJobs : Thread(c)

TickInstalls == LiveFrame /\ poll_installs

TickUpdates == LiveFrame /\ poll_updates

\* the one reference that starts a job
LiveRefs == {OwnerO \o Slash \o RepoR}

LiveInstall == LiveFrame /\ StartInstallOf(LiveRefs, MaxJobs)

LiveUpdate == LiveFrame /\ UpdateSelectedOf(MaxJobs)

LiveNext ==
    \/ LiveInstall
    \/ LiveUpdate
    \/ Threads
    \/ TickInstalls
    \/ TickUpdates

\* the thread of the job of channel c is at work
Running(c) == c <= Len(chans) /\ chans[c].state = "running"

\* Every git subprocess terminates, and the main loop keeps polling.  A thread at work
\* can always take its step and is at work no more once it has: weak fairness of
\* Thread(c) is that the thread is not at work for ever.
Fairness ==
    /\ \A c \in 1..MaxJobs : []<>~Running(c)
    /\ WF_vars(TickInstalls)
    /\ WF_vars(TickUpdates)

SpecLive == AppInit /\ [][LiveNext]_vars /\ Fairness

\* the job of channel c has been started
Started(c) == c <= Len(chans)

\* the job of channel c is in neither pending list and the board shows a Success or an
\* Error entry under its id
Settled(c) ==
    /\ Started(c)
    /\ chans[c].state = "received"
    /\ Receivers[c] = 0
    /\ applied[c].status = 1
    /\ Posted(status, chans[c].id, "Success") \/ Posted(status, chans[c].id, "Error")

\* C30: with threads that terminate and a main loop that keeps polling, every job
\* added to installing or updating is eventually removed from it, and the Progress
\* entry posted when it started is eventually overwritten by a Success or Error entry
\* of the same id.
C30_JobsRunToCompletion ==
    \A c \in 1..MaxJobs : (Started(c) /\ Receivers[c] = 1) ~> Settled(c)

\* two jobs, an install and the update of what it installed, have both been settled
C30_Witness ==
    /\ Len(chans) = 2
    /\ chans[1].kind = "install"
    /\ chans[2].kind = "update"
    /\ Settled(1)
    /\ Settled(2)
    /\ installing = << >>
    /\ updating = << >>

(***************************************************************************)
(* The plugin collection of the App                                        *)
(***************************************************************************)
\* C31: in every state of the App no two entries of plugins have the same cache path
\* (the same host, owner and repo).
C31_NoTwoPluginsOfOnePath ==
    \A i, j \in 1..Len(plugins) :
        i # j => /\ plugins[i].path # plugins[j].path
                 /\ <<plugins[i].host, plugins[i].owner, plugins[i].repo>>
                        # <<plugins[j].host, plugins[j].owner, plugins[j].repo>>

(***************************************************************************)
(* Update jobs while the collection is edited: the App on the disk that    *)
(* holds o/r and o/q, with update jobs, delete_selected, refresh and the   *)
(* selection moves.                                                        *)
(***************************************************************************)
EditNext ==
    \/ JobUpdate
    \/ WorkerUpdate
    \/ PollUpdates
    \/ DeleteSelected
    \/ Refresh
    \/ SelectNext
    \/ SelectPrev

SpecEdit == JobsInit /\ [][EditNext]_vars

\* the update jobs whose Ok result the poll takes
TakenOk == {i \in Taken(updating) : chans[updating[i].rx].res = "Ok"}

\* C32: poll_updates puts the Plugin of a successful update job in the place of the
\* entry of the identity of the plugin the job was started for and in no other place;
\* when that plugin is no longer in the collection nothing is replaced.
C32_UpdateReplacesItsOwnPlugin ==
    [][AppDid("poll_updates") =>
          /\ Len(plugins') = Len(plugins)
          /\ \A k \in 1..Len(plugins) :
                \/ plugins'[k] = plugins[k]
                \/ \E i \in TakenOk :
                      /\ Identity(chans[updating[i].rx].arg) = Identity(plugins[k])
                      /\ plugins'[k] = chans[updating[i].rx].plugin
          /\ \A i \in TakenOk, k \in 1..Len(plugins) :
                Identity(chans[updating[i].rx].arg) = Identity(plugins[k]) =>
                    Identity(plugins'[k]) = Identity(plugins[k])]_vars

(***************************************************************************)
(* git fails                                                               *)
(***************************************************************************)
FailedOutcomes == {out \in AppOutcomes : ~out.ok}

\* the update jobs whose Err result the poll takes
TakenErr == {i \in Taken(updating) : chans[updating[i].rx].res # "Ok"}

\* the jobs of the App alone: installs and updates, their threads and their polls
GitNext ==
    \/ StartInstall
    \/ WorkerInstall
    \/ PollInstalls
    \/ UpdateSelected
    \/ WorkerUpdate
    \/ PollUpdates

SpecGit == AppInit /\ [][GitNext]_vars

MaxInput == 4

\* the keys of the input line
Keys == {"o", "/", "r", "p", " "}

\* App::enter_install_input, key i of the plugin list
enter_install_input ==
    /\ AppCount
    /\ view = "PluginList"
    /\ input' = EmptyStr
    /\ view' = "InstallInput"
    /\ last' = Step("enter_install_input", "main", "Ok", 0)
    /\ UNCHANGED <<plugins, selected_plugin, installing, updating, chans, applied, status,
                   dirs, ldirs, links>>

\* App::back_to_plugin_list, key Esc of the install view
back_to_plugin_list ==
    /\ AppCount
    /\ view = "InstallInput"
    /\ view' = "PluginList"
    /\ input' = EmptyStr
    /\ last' = Step("back_to_plugin_list", "main", "Ok", 0)
    /\ UNCHANGED <<plugins, selected_plugin, installing, updating, chans, applied, status,
                   dirs, ldirs, links>>

\* a character key of the install view
PushKey ==
    /\ AppCount
    /\ view = "InstallInput"
    /\ Len(input) < MaxInput
    /\ \E c \in Keys : input' = Append(input, c)
    /\ last' = Step("push", "main", "Ok", 0)
    /\ UNCHANGED <<plugins, selected_plugin, installing, updating, chans, applied, status,
                   view, dirs, ldirs, links>>

\* key Backspace of the install view
Backspace ==
    /\ AppCount
    /\ view = "InstallInput"
    /\ IF input = EmptyStr
       THEN view' = "PluginList" /\ input' = EmptyStr
       ELSE view' = view /\ input' = SubSeq(input, 1, Len(input) - 1)
    /\ last' = Step("pop", "main", "Ok", 0)
    /\ UNCHANGED <<plugins, selected_plugin, installing, updating, chans, applied, status,
                   dirs, ldirs, links>>

\* App::start_install, key Enter of the install view
start_install ==
    /\ AppCount
    /\ view = "InstallInput"
    /\ Len(chans) < MaxJobs
    /\ StartInstallOn(input)
    /\ input' = IF Accepted(input) THEN EmptyStr ELSE input
    /\ view' = IF Accepted(input) THEN "PluginList" ELSE view
    /\ UNCHANGED <<plugins, selected_plugin, updating, dirs, ldirs, links>>

InputNext ==
    \/ enter_install_input
    \/ back_to_plugin_list
    \/ PushKey
    \/ Backspace
    \/ start_install
    \/ WorkerInstall
    \/ PollInstalls

\* one plugin, o/r, is installed when the App is built
SpecInput == LinkInit /\ [][InputNext]_vars

\* C34: start_install starts a job, and appends it to installing, only when the trimmed
\* input is not empty, parses and is not installed.  For an empty or unparseable input
\* it posts Error under install:error and leaves input, view, installing and plugins
\* alone; for an installed one it posts Info, clears the input, goes back to the plugin
\* list and starts no job.
C34_StartInstallChecksFirst ==
    [][AppDid("start_install") =>
         LET t == trim(input)
             source == parse(t)
             refused == t = EmptyStr \/ ~source.ok
             installed == ~refused /\ is_installed(Fs, source)
             id == <<"install:">> \o t
         IN  /\ plugins' = plugins
             /\ FsAfter = Fs
             /\ refused =>
                   /\ Posted(status', <<"install:error">>, "Error")
                   /\ UNCHANGED <<input, view, installing, chans>>
             /\ installed =>
                   /\ Posted(status', id, "Info")
                   /\ input' = EmptyStr
                   /\ view' = "PluginList"
                   /\ UNCHANGED <<installing, chans>>
             /\ (~refused /\ ~installed) =>
                   /\ Posted(status', id, "Progress")
                   /\ input' = EmptyStr
                   /\ view' = "PluginList"
                   /\ installing' = Append(installing, [url |-> t, rx |-> Len(chans) + 1])
                   /\ Len(chans') = Len(chans) + 1
                   /\ chans'[Len(chans')].state = "running"
                   /\ chans'[Len(chans')].arg = t
                   /\ \A c \in 1..Len(chans) : chans'[c] = chans[c]]_vars

\* a text has been refused, the same view has then taken o/r, which is
\* installed, and the list is back with an empty input line and no job
C34_Witness ==
    /\ last.op = "start_install"
    /\ last.res = "installed"
    /\ view = "PluginList"
    /\ input = EmptyStr
    /\ installing = << >>
    /\ chans = << >>
    /\ Posted(status, <<"install:error">>, "Error")
    /\ Posted(status, <<"install:">> \o OwnerO \o Slash \o RepoR, "Info")

(***************************************************************************)
(* Progress entries of the pending jobs                                    *)
(***************************************************************************)
\* C35: every job still in installing or updating has a Progress entry under its id
\* on the status board.
C35_PendingJobsShowProgress ==
    /\ \A i \in 1..Len(installing) : Posted(status, chans[installing[i].rx].id, "Progress")
    /\ \A i \in 1..Len(updating) : Posted(status, chans[updating[i].rx].id, "Progress")

(***************************************************************************)
(* The toggle of one target, with updates that move the skill              *)
(***************************************************************************)
\* git fetches the skill f where it was, or moved to x/f
MoveOutcomes ==
    {[ok |-> TRUE, tree |-> << [rel |-> d, marker |-> TRUE] >>] : d \in TreeDirs}

MovingUpdate == AppFrame /\ \E c \in 1..Len(chans) : WorkerUpdateWith(c, MoveOutcomes)

ToggleNext == ToggleLink \/ UpdateSelected \/ MovingUpdate \/ PollUpdates

SpecToggle == LinkInit /\ [][ToggleNext]_vars

ToggleStep == AppDid("link_to") \/ AppDid("unlink_from")

\* C36: toggle_selected_link_target flips what is_linked_to reports, whatever is at the
\* link path (nothing, a symlink that resolves, a symlink that does not): a target
\* that was linked is not linked afterwards, and a target that was not linked is
\* linked afterwards when the skill's directory exists.
C36_ToggleFlips ==
    [][ToggleStep =>
         \E i \in 1..Len(SelectedPlugin.skills) :
             LET skill == SelectedPlugin.skills[i]
                 t == LinkTargets[last'.ch]
             IN  /\ FindEntry(status', <<"link:", display_name(t), ":">> \o skill.name) # 0
                 /\ LinkEntry(Fs, skill, t).kind \in {"none", "symlink"} =>
                       IF is_linked_to(Fs, skill, t)
                       THEN ~is_linked_to(FsAfter, skill, t)
                       ELSE SkillDirExists(Fs, skill) => is_linked_to(FsAfter, skill, t)]_vars

(***************************************************************************)
(* The links of the other plugins                                          *)
(***************************************************************************)
\* C37: remove and update of a plugin P create and remove link entries of P's skills
\* only: for every other installed plugin Q, of another host, owner or repo, a link
\* that leads to the directory of one of Q's skills is there before and after, in
\* every target.
C37_OtherPluginsLinksStay ==
    [][(Did("remove") \/ Did("update")) =>
         \A q \in DOMAIN held :
             (is_git_repo(Fs, q) /\ Identity(held[q]) # Identity(held[last'.arg])) =>
                 \A sk \in SkillsOf(held[q]), t \in Targets :
                     EntryAt(Fs, sk, t) = [kind |-> "symlink", to |-> Parent(sk.path)] =>
                         EntryAt(FsAfter, sk, t) = EntryAt(Fs, sk, t)]_vars

(***************************************************************************)
(* An update whose thread runs beside the main loop.  The thread reads the *)
(* links before the pull and writes them after it; the main loop may act   *)
(* in between.                                                             *)
(***************************************************************************)
\* the thread of the update job has looked for the repository and collected
\* linked_before; git pull is running
UpdateCollect ==
    /\ AppFrame
    /\ \E c \in 1..Len(chans) :
        /\ chans[c].kind = "update"
        /\ chans[c].state = "running"
        /\ is_git_repo(Fs, chans[c].arg.path)
        /\ chans' = [chans EXCEPT ![c].state = "pulling",
                                  ![c].before = LinkedBefore(Fs, chans[c].arg)]
        /\ last' = Step("collect", "worker", "Ok", c)
    /\ UNCHANGED <<plugins, selected_plugin, installing, updating, applied, status,
                   dirs, ldirs, links>>

\* the pull has ended: the thread builds the new Plugin, goes through linked_before
\* and sends the result
UpdateFinish ==
    /\ AppFrame
    /\ \E c \in 1..Len(chans), out \in MoveOutcomes \cup FailedOutcomes :
        /\ chans[c].kind = "update"
        /\ chans[c].state = "pulling"
        /\ \E r \in {update_after(Fs, chans[c].arg, out, chans[c].before)} :
              /\ SetFs(r.fs)
              /\ chans' = [chans EXCEPT ![c].state = "sent", ![c].res = r.res,
                                        ![c].plugin = r.plugin]
              /\ last' = Step("update", "worker", r.res, c)
    /\ UNCHANGED <<plugins, selected_plugin, installing, updating, applied, status>>

\* one update job
UpdateOnce == AppFrame /\ UpdateSelectedOf(1)

RaceNext == ToggleLink \/ UpdateOnce \/ UpdateCollect \/ UpdateFinish \/ PollUpdates

SpecRace == LinkInit /\ [][RaceNext]_vars

\* C38: a skill of the plugin that the user unlinked from a target while the update of
\* the plugin was in flight is not linked at that target when the update completes:
\* where the thread found a link before the pull and the link path is empty when the
\* pull has ended, it is empty after the thread's last step.
C38_UpdateKeepsTheUnlink ==
    [][(AppDid("update") /\ chans[last'.ch].state = "pulling") =>
         LET before == chans[last'.ch].before
         IN  \A i \in 1..Len(before) :
                 LET lp == PathJoin(claude_skills_dir.path, before[i][1])
                 IN  ~symlink_exists(Fs, lp) => ~symlink_exists(FsAfter, lp)]_vars

(***************************************************************************)
(* install, then is_installed and list_installed                           *)
(***************************************************************************)
\* C39: after install of a reference has succeeded, is_installed of the parsed
\* reference is true and list_installed holds exactly one Plugin of the host, owner,
\* repo and path of the Plugin that install returned.
C39_InstalledIsListed ==
    [][(Did("install") /\ last'.res = "Ok") =>
         LET source == parse(last'.arg)
             plugin == held'[local_path(source)]
         IN  /\ is_installed(FsAfter, source)
             /\ Cardinality({P \in list_installed(FsAfter) :
                                 Identity(P) = Identity(plugin) /\ P.path = plugin.path}) = 1]_vars

(***************************************************************************)
(* The selection                                                           *)
(***************************************************************************)
\* the rows of the plugin list: the plugins, then the installs in flight
Rows == Len(plugins) + Len(installing)

\* C40: whenever the plugin list has a row, selected_plugin is the index of one.
C40_SelectionInTheList == Rows > 0 => selected_plugin < Rows

====
